---- MODULE Spec2Model ----
(***************************************************************************)
(* Model of the package recipes atdm-trilinos, netcdf-c and                *)
(* cray-pe-targets.                                                        *)
(*                                                                         *)
(* Part 1: the transitive library collector (_find_libraries and           *)
(* _gather_core_tpl_libraries), which the atdm-trilinos and the netcdf-c   *)
(* recipe each carry a copy of.  The resolved package specification (the   *)
(* dependency graph, what each package's `libs` query answers, what is     *)
(* installed under each prefix) is the input, drawn in Init; the actions   *)
(* apply the two routines of either copy to it.                            *)
(*                                                                         *)
(* Strings are TLA+ strings; paths, flags and names are built and taken    *)
(* apart with \o, Len and SubSeq, as the Python code does with str.        *)
(***************************************************************************)
EXTENDS Integers, Sequences, FiniteSets, TLC

VARIABLES
    spec_deps,      \* package name -> names of its direct dependencies, in order
    spec_install,   \* package name -> what its `libs` query finds under its prefix
    call,           \* the last collector call: its arguments and what it returned
    tmp_spack_magic,\* the files of the directory /tmp/spack_magic
    module_env,     \* the variables `module load` sets in a shell
    build,          \* build process -> its variants, its os.environ, where it is
    load,           \* the evaluation of _atdmtrilinos_load_config: input and outcome
    cray,           \* a cray-pe-targets spec, its prefix, and how its install ended
    merge           \* a call of _atdmtrilinos_recursive_update: arguments and outcome

collector_vars == <<spec_deps, spec_install, call>>
build_vars == <<tmp_spack_magic, module_env, build>>
package_vars == <<load, cray, merge>>
vars == <<spec_deps, spec_install, call, tmp_spack_magic, module_env, build, load, cray,
          merge>>

(***************************************************************************)
(* Bounds of the model.                                                    *)
(***************************************************************************)
\* longest core_tpls list handed to _gather_core_tpl_libraries
MaxTpls == 1
\* most entries of a blacklist_static list
MaxDenylist == 2
\* most variables the loaded modules set
MaxModuleVars == 2

(***************************************************************************)
(* Generic helpers on sequences and strings.                               *)
(***************************************************************************)
Range(s) == {s[i] : i \in 1..Len(s)}

NoRepeats(s) == \A i, j \in 1..Len(s) : s[i] = s[j] => i = j

\* Python `sub in s` on strings
Contains(s, sub) ==
    \E i \in 1..(Len(s) - Len(sub) + 1) : SubSeq(s, i, i + Len(sub) - 1) = sub

StartsWith(s, pre) == Len(s) >= Len(pre) /\ SubSeq(s, 1, Len(pre)) = pre

EndsWith(s, suf) ==
    Len(s) >= Len(suf) /\ SubSeq(s, Len(s) - Len(suf) + 1, Len(s)) = suf

\* position of the first / last occurrence of sub in s, 0 when there is none
FirstIndexOf(s, sub) ==
    LET hits == {i \in 1..(Len(s) - Len(sub) + 1) : SubSeq(s, i, i + Len(sub) - 1) = sub}
    IN IF hits = {} THEN 0 ELSE CHOOSE i \in hits : \A j \in hits : i <= j

LastIndexOf(s, sub) ==
    LET hits == {i \in 1..(Len(s) - Len(sub) + 1) : SubSeq(s, i, i + Len(sub) - 1) = sub}
    IN IF hits = {} THEN 0 ELSE CHOOSE i \in hits : \A j \in hits : i >= j

\* concatenation of the sequences f[1], ..., f[n]
RECURSIVE ConcatAll(_)
ConcatAll(ss) == IF ss = <<>> THEN <<>> ELSE Head(ss) \o ConcatAll(Tail(ss))

\* a deduplication that keeps the last occurrence of every entry instead
RECURSIVE dict_fromkeys_last(_)
dict_fromkeys_last(s) ==
    IF s = <<>> THEN <<>>
    ELSE IF Head(s) \in Range(Tail(s)) THEN dict_fromkeys_last(Tail(s))
         ELSE <<Head(s)>> \o dict_fromkeys_last(Tail(s))

\* list(dict.fromkeys(s)): the first occurrence of every entry, in order
RECURSIVE dict_fromkeys_from(_, _)
dict_fromkeys_from(s, seen) ==
    IF s = <<>> THEN <<>>
    ELSE IF Head(s) \in seen THEN dict_fromkeys_from(Tail(s), seen)
         ELSE <<Head(s)>> \o dict_fromkeys_from(Tail(s), seen \cup {Head(s)})

dict_fromkeys(s) == dict_fromkeys_from(s, {})

(***************************************************************************)
(* The resolved specification: packages, prefixes, library queries.        *)
(***************************************************************************)
\* the packages of the concretized spec, dependents before dependencies
Packages == <<"netcdf-c", "hdf5", "cray-libsci">>
PkgSet == Range(Packages)

\* the dependency lists a package at position i may have: the packages
\* after it (the graph is a DAG), any of them, in any order
RECURSIVE SubLists(_)
SubLists(s) ==
    IF s = <<>> THEN {<<>>}
    ELSE LET rest == SubLists(Tail(s))
         IN rest \cup {<<Head(s)>> \o r : r \in rest}

Arrangements(S) ==
    {s \in UNION {[1..n -> S] : n \in 0..Cardinality(S)} : NoRepeats(s)}

DepChoices(i) == Arrangements(Range(SubSeq(Packages, i + 1, Len(Packages))))

\* what a package's `libs` query does
\*   "raise"  : raises NoLibrariesError
\*   "nolibs" : answers an empty library list
\*   "static" : the package's libraries are installed as .a archives
\*   "shared" : the package's libraries are installed as .so objects
InstallKinds == {"raise", "nolibs", "static", "shared"}
\* the last package is drawn without the "nolibs" answer, which the packages
\* before it cover
InstallChoices(p) ==
    IF p = Packages[Len(Packages)] THEN InstallKinds \ {"nolibs"} ELSE InstallKinds

\* spec[query]: the name before ':' selects the package, the rest are the
\* query parameters
QueryName(query) ==
    LET c == FirstIndexOf(query, ":")
    IN IF c = 0 THEN query ELSE SubSeq(query, 1, c - 1)

QueryParams(query) ==
    LET c == FirstIndexOf(query, ":")
    IN IF c = 0 THEN "" ELSE SubSeq(query, c + 1, Len(query))

SpecLookup(query) == [name |-> QueryName(query), params |-> QueryParams(query)]

\* package_spec.prefix, .prefix.include, .prefix.lib
Prefix(package_spec) == "/opt/" \o package_spec.name
PrefixInclude(package_spec) == Prefix(package_spec) \o "/include"
PrefixLib(package_spec) == Prefix(package_spec) \o "/lib"

\* package_spec.libs raises NoLibrariesError
LibsRaises(package_spec) == spec_install[package_spec.name] = "raise"

\* package_spec.libs.names: the library names without the 'lib' prefix
LibsNames(package_spec) ==
    IF spec_install[package_spec.name] = "nolibs" THEN <<>>
    ELSE CASE package_spec.name = "netcdf-c" -> <<"netcdf">>
           [] package_spec.name = "hdf5" ->
                IF Contains(package_spec.params, "hl") THEN <<"hdf5_hl", "hdf5">>
                ELSE <<"hdf5">>
           [] package_spec.name = "cray-libsci" -> <<"sci_cray">>
           [] OTHER -> <<>>

\* the library files present under a package's prefix, by name
InstalledLibs(name) ==
    CASE name = "netcdf-c" -> {"libnetcdf"}
      [] name = "hdf5" -> {"libhdf5", "libhdf5_hl"}
      [] name = "cray-libsci" -> {"libsci_cray"}
      [] OTHER -> {}

\* package_spec.dependencies_dict(): the direct dependencies, in order
dependencies_dict(package_spec) == spec_deps[package_spec.name]

\* find_libraries(libnames, root=prefix, shared=shared, recursive=True):
\* the paths of the files <libname>.so (shared) or <libname>.a (static) found
\* under the prefix, in the order of libnames
find_libraries(libnames, package_spec, shared) ==
    LET suffix == IF shared THEN ".so" ELSE ".a"
        have == (shared /\ spec_install[package_spec.name] = "shared")
                \/ (~shared /\ spec_install[package_spec.name] = "static")
        one(n) == IF have /\ n \in InstalledLibs(package_spec.name)
                  THEN <<PrefixLib(package_spec) \o "/" \o n \o suffix>>
                  ELSE <<>>
    IN ConcatAll([i \in 1..Len(libnames) |-> one(libnames[i])])

\* str.split() of one whitespace-free or blank-separated word list
RECURSIVE SplitWs(_)
SplitWs(s) ==
    IF s = "" THEN <<>>
    ELSE LET b == FirstIndexOf(s, " ")
         IN IF b = 0 THEN <<s>>
            ELSE IF b = 1 THEN SplitWs(SubSeq(s, 2, Len(s)))
            ELSE <<SubSeq(s, 1, b - 1)>> \o SplitWs(SubSeq(s, b + 1, Len(s)))

\* ' '.join(paths), the str() of a LibraryList
RECURSIVE JoinWs(_)
JoinWs(paths) ==
    IF paths = <<>> THEN ""
    ELSE IF Len(paths) = 1 THEN Head(paths)
    ELSE Head(paths) \o " " \o JoinWs(Tail(paths))

NoResult == [libs |-> <<>>, inc_dirs |-> <<>>, lib_dirs |-> <<>>]

(***************************************************************************)
(* _find_libraries, the atdm-trilinos copy.                                *)
(***************************************************************************)
\* a variant of the dependency loop that stops after the first dependency
FindDepsFirstOnly(deps, sub) ==
    IF deps = <<>> THEN NoResult ELSE sub[deps[1]]

\* a variant of the dependency loop that a dependency with nothing to
\* report ends
FindDepsUntilEmpty(deps, sub) ==
    LET stops == {i \in 1..Len(deps) : sub[deps[i]] = NoResult}
        last == IF stops = {} THEN Len(deps)
                ELSE (CHOOSE i \in stops : \A j \in stops : i <= j) - 1
    IN [libs     |-> ConcatAll([i \in 1..last |-> sub[deps[i]].libs]),
        inc_dirs |-> ConcatAll([i \in 1..last |-> sub[deps[i]].inc_dirs]),
        lib_dirs |-> ConcatAll([i \in 1..last |-> sub[deps[i]].lib_dirs])]

\* the loop over package_spec.dependencies_dict(): the results of the
\* recursive calls, appended in order; sub[n] is the result of
\* self._find_libraries(n, shared)
FindDepsLoop(deps, sub) ==
    [libs     |-> ConcatAll([i \in 1..Len(deps) |-> sub[deps[i]].libs]),
     inc_dirs |-> ConcatAll([i \in 1..Len(deps) |-> sub[deps[i]].inc_dirs]),
     lib_dirs |-> ConcatAll([i \in 1..Len(deps) |-> sub[deps[i]].lib_dirs])]

RECURSIVE AtdmTrilinos_find_libraries(_, _, _, _)
AtdmTrilinos_find_libraries(dep_name, shared, query_map, override_libnames_map) ==
    LET package_spec == IF dep_name \in DOMAIN query_map
                        THEN SpecLookup(query_map[dep_name])
                        ELSE SpecLookup(dep_name)
    IN IF LibsRaises(package_spec) THEN NoResult
       ELSE
       LET package_lib_names == IF dep_name \in DOMAIN override_libnames_map
                                THEN override_libnames_map[dep_name]
                                ELSE LibsNames(package_spec)
           libnames == [i \in 1..Len(package_lib_names) |-> "lib" \o package_lib_names[i]]
           inc_dirs == <<PrefixInclude(package_spec)>>
           lib_dirs == <<PrefixLib(package_spec)>>
       IN IF Len(libnames) < 1
          THEN [libs |-> <<>>, inc_dirs |-> inc_dirs, lib_dirs |-> lib_dirs]
          ELSE
          LET libs == SplitWs(JoinWs(find_libraries(libnames, package_spec, shared)))
              deps == dependencies_dict(package_spec)
              sub  == [n \in Range(deps) |->
                          AtdmTrilinos_find_libraries(n, shared, <<>>, <<>>)]
              more == FindDepsLoop(deps, sub)
          IN [libs     |-> libs \o more.libs,
              inc_dirs |-> inc_dirs \o more.inc_dirs,
              lib_dirs |-> lib_dirs \o more.lib_dirs]

(***************************************************************************)
(* _find_libraries, the netcdf-c copy (it takes required_shared too, and   *)
(* never reads it).                                                        *)
(***************************************************************************)
RECURSIVE NetcdfC_find_libraries(_, _, _, _, _)
NetcdfC_find_libraries(dep_name, shared, required_shared, query_map, override_libnames_map) ==
    LET package_spec == IF dep_name \in DOMAIN query_map
                        THEN SpecLookup(query_map[dep_name])
                        ELSE SpecLookup(dep_name)
    IN IF LibsRaises(package_spec) THEN NoResult
       ELSE
       LET package_lib_names == IF dep_name \in DOMAIN override_libnames_map
                                THEN override_libnames_map[dep_name]
                                ELSE LibsNames(package_spec)
           libnames == [i \in 1..Len(package_lib_names) |-> "lib" \o package_lib_names[i]]
           inc_dirs == <<PrefixInclude(package_spec)>>
           lib_dirs == <<PrefixLib(package_spec)>>
       IN IF Len(libnames) < 1
          THEN [libs |-> <<>>, inc_dirs |-> inc_dirs, lib_dirs |-> lib_dirs]
          ELSE
          LET libs == SplitWs(JoinWs(find_libraries(libnames, package_spec, shared)))
              deps == dependencies_dict(package_spec)
              sub  == [n \in Range(deps) |->
                          NetcdfC_find_libraries(n, shared, <<>>, <<>>, <<>>)]
              more == FindDepsLoop(deps, sub)
          IN [libs     |-> libs \o more.libs,
              inc_dirs |-> inc_dirs \o more.inc_dirs,
              lib_dirs |-> lib_dirs \o more.lib_dirs]

(***************************************************************************)
(* _gather_core_tpl_libraries: the body of the loop over core_tpls.        *)
(***************************************************************************)
StartGroup == "-Wl,--start-group"
EndGroup == "-Wl,--end-group"

\* a wrapping that skips the deduplication
WrapGroupsNoDedup(libs, wrap_groups) ==
    IF wrap_groups /\ Len(libs) > 1
    THEN <<StartGroup>> \o libs \o <<EndGroup>>
    ELSE libs

\* if wrap_groups and len(libs[tpl]) > 1: deduplicate, then wrap
WrapGroups(libs, wrap_groups) ==
    IF wrap_groups /\ Len(libs) > 1
    THEN <<StartGroup>> \o dict_fromkeys(libs) \o <<EndGroup>>
    ELSE libs

\* need_fix: static linkage and some entry holds a denylisted substring
NeedFix(libs, blacklist_static, shared) ==
    /\ ~shared
    /\ \E b \in 1..Len(blacklist_static) :
          \E i \in 1..Len(libs) : Contains(libs[i], blacklist_static[b])

\* Path(l).name: the last component of the path
PathName(l) ==
    LET k == LastIndexOf(l, "/")
    IN IF k = 0 THEN l ELSE SubSeq(l, k + 1, Len(l))

\* re.match(r'^lib(?P<name>.*)\.a', libname): whether it matches, and the
\* group 'name' (.* is greedy: up to the last '.a')
LibRegexMatches(libname) ==
    StartsWith(libname, "lib") /\ LastIndexOf(SubSeq(libname, 4, Len(libname)), ".a") > 0

LibRegexName(libname) ==
    LET rest == SubSeq(libname, 4, Len(libname))
    IN SubSeq(rest, 1, LastIndexOf(rest, ".a") - 1)

\* the atdm-trilinos rewriting loop: for every entry and every denylist
\* substring it holds, '-L<dir>'... '-l<name>' (or the entry, when the file
\* name is no lib*.a); an entry that holds no denylist substring adds nothing
AtdmTrilinos_rewrite(libs, lib_dirs, blacklist_static) ==
    LET new_l_pref == [d \in 1..Len(lib_dirs) |-> "-L" \o lib_dirs[d]]
        piece(l, blacklisted) ==
            IF Contains(l, blacklisted)
            THEN IF LibRegexMatches(PathName(l))
                 THEN new_l_pref \o <<"-l" \o LibRegexName(PathName(l))>>
                 ELSE <<l>>
            ELSE <<>>
        per_lib(l) == ConcatAll([b \in 1..Len(blacklist_static) |->
                                    piece(l, blacklist_static[b])])
    IN ConcatAll([i \in 1..Len(libs) |-> per_lib(libs[i])])

\* the netcdf-c rewriting loop: new_l_prefix is computed and never used
NetcdfC_rewrite(libs, lib_dirs, blacklist_static) ==
    LET piece(l, blacklisted) ==
            IF Contains(l, blacklisted)
            THEN IF LibRegexMatches(PathName(l))
                 THEN <<"-l" \o LibRegexName(PathName(l))>>
                 ELSE <<l>>
            ELSE <<>>
        per_lib(l) == ConcatAll([b \in 1..Len(blacklist_static) |->
                                    piece(l, blacklist_static[b])])
    IN ConcatAll([i \in 1..Len(libs) |-> per_lib(libs[i])])

\* one iteration of the loop, from what _find_libraries returned for the tpl
AtdmTrilinos_gather_tpl(found, blacklist_static, shared, wrap_groups) ==
    LET inc_dirs == dict_fromkeys(found.inc_dirs)
        lib_dirs == dict_fromkeys(found.lib_dirs)
        wrapped  == WrapGroups(found.libs, wrap_groups)
    IN [libs     |-> IF NeedFix(wrapped, blacklist_static, shared)
                     THEN AtdmTrilinos_rewrite(wrapped, lib_dirs, blacklist_static)
                     ELSE wrapped,
        inc_dirs |-> inc_dirs,
        lib_dirs |-> lib_dirs]

\* a netcdf-c loop body that leaves the directory lists as collected
NetcdfC_gather_tpl_raw_dirs(found, blacklist_static, shared, wrap_groups) ==
    LET wrapped == WrapGroups(found.libs, wrap_groups)
    IN [libs     |-> IF NeedFix(wrapped, blacklist_static, shared)
                     THEN NetcdfC_rewrite(wrapped, found.lib_dirs, blacklist_static)
                     ELSE wrapped,
        inc_dirs |-> found.inc_dirs,
        lib_dirs |-> found.lib_dirs]

NetcdfC_gather_tpl(found, blacklist_static, shared, wrap_groups) ==
    LET inc_dirs == dict_fromkeys(found.inc_dirs)
        lib_dirs == dict_fromkeys(found.lib_dirs)
        wrapped  == WrapGroups(found.libs, wrap_groups)
    IN [libs     |-> IF NeedFix(wrapped, blacklist_static, shared)
                     THEN NetcdfC_rewrite(wrapped, lib_dirs, blacklist_static)
                     ELSE wrapped,
        inc_dirs |-> inc_dirs,
        lib_dirs |-> lib_dirs]

\* _gather_core_tpl_libraries: the three dictionaries, keyed by tpl
AtdmTrilinos_gather_core_tpl_libraries(core_tpls, query_map, override_libnames_map, blacklist_static, shared, wrap_groups) ==
    [tpl \in Range(core_tpls) |->
        AtdmTrilinos_gather_tpl(
            AtdmTrilinos_find_libraries(tpl, shared, query_map, override_libnames_map),
            blacklist_static, shared, wrap_groups)]

NetcdfC_gather_core_tpl_libraries(core_tpls, query_map, override_libnames_map, blacklist_static, shared, required_shared, wrap_groups) ==
    [tpl \in Range(core_tpls) |->
        NetcdfC_gather_tpl(
            NetcdfC_find_libraries(tpl, shared, required_shared, query_map,
                                   override_libnames_map),
            blacklist_static, shared, wrap_groups)]

(***************************************************************************)
(* The arguments the collector is called with.                             *)
(***************************************************************************)
\* substrings a blacklist_static list is made of
DenyPool == <<"sci_cray", "cray">>
Denylists == {d \in SubLists(DenyPool) : Len(d) <= MaxDenylist}

\* core_tpls: lists of distinct packages
CoreTplChoices == {t \in SubLists(Packages) : Len(t) >= 1 /\ Len(t) <= MaxTpls}

\* query_map and override_libnames_map, as the recipes pass them
EmptyMap == <<>>
QueryMaps == {EmptyMap, [n \in {"hdf5"} |-> "hdf5:hl,fortran"]}
OverrideMaps == {EmptyMap, [n \in {"hdf5"} |-> <<"hdf5_hl">>]}
MapChoices == {<<q, o>> \in QueryMaps \X OverrideMaps : q = EmptyMap \/ o = EmptyMap}

NoCall ==
    [op |-> "none", class |-> "none", core_tpls |-> <<>>, shared |-> FALSE,
     wrap_groups |-> FALSE, blacklist_static |-> <<>>, query_map |-> EmptyMap,
     override_libnames_map |-> EmptyMap, found |-> EmptyMap, out |-> EmptyMap]

(***************************************************************************)
(* Actions of the collector.                                               *)
(***************************************************************************)
CollectorInit ==
    /\ spec_deps \in {d \in [PkgSet -> Arrangements(PkgSet)] :
                        \A i \in 1..Len(Packages) : d[Packages[i]] \in DepChoices(i)}
    /\ spec_install \in {f \in [PkgSet -> InstallKinds] :
                            \A p \in PkgSet : f[p] \in InstallChoices(p)}
    /\ call = NoCall

\* self._find_libraries(dep_name, shared=..., query_map=..., override_libnames_map=...)
AtdmFindLibraries ==
    /\ call.op = "none"
    /\ \E dep_name \in PkgSet, shared \in BOOLEAN, m \in MapChoices :
        LET r == AtdmTrilinos_find_libraries(dep_name, shared, m[1], m[2])
        IN /\ call' = [op |-> "_find_libraries", class |-> "AtdmTrilinos",
                       core_tpls |-> <<dep_name>>, shared |-> shared,
                       wrap_groups |-> FALSE, blacklist_static |-> <<>>,
                       query_map |-> m[1], override_libnames_map |-> m[2],
                       found |-> [t \in {dep_name} |-> r],
                       out |-> [t \in {dep_name} |-> r]]
           /\ UNCHANGED <<spec_deps, spec_install, build_vars, package_vars>>

NetcdfFindLibraries ==
    /\ call.op = "none"
    /\ \E dep_name \in PkgSet, shared \in BOOLEAN, m \in MapChoices :
        LET r == NetcdfC_find_libraries(dep_name, shared, <<>>, m[1], m[2])
        IN /\ call' = [op |-> "_find_libraries", class |-> "NetcdfC",
                       core_tpls |-> <<dep_name>>, shared |-> shared,
                       wrap_groups |-> FALSE, blacklist_static |-> <<>>,
                       query_map |-> m[1], override_libnames_map |-> m[2],
                       found |-> [t \in {dep_name} |-> r],
                       out |-> [t \in {dep_name} |-> r]]
           /\ UNCHANGED <<spec_deps, spec_install, build_vars, package_vars>>

\* self._gather_core_tpl_libraries(core_tpls, ...); `found` keeps what
\* _find_libraries returned for each tpl
AtdmGather ==
    /\ call.op = "none"
    /\ \E core_tpls \in CoreTplChoices, shared \in BOOLEAN, wrap_groups \in BOOLEAN,
       blacklist_static \in Denylists, m \in MapChoices :
        /\ call' = [op |-> "_gather_core_tpl_libraries", class |-> "AtdmTrilinos",
                    core_tpls |-> core_tpls, shared |-> shared,
                    wrap_groups |-> wrap_groups,
                    blacklist_static |-> blacklist_static,
                    query_map |-> m[1], override_libnames_map |-> m[2],
                    found |-> [t \in Range(core_tpls) |->
                                 AtdmTrilinos_find_libraries(t, shared, m[1], m[2])],
                    out |-> AtdmTrilinos_gather_core_tpl_libraries(
                                core_tpls, m[1], m[2], blacklist_static, shared,
                                wrap_groups)]
        /\ UNCHANGED <<spec_deps, spec_install, build_vars, package_vars>>

NetcdfGather ==
    /\ call.op = "none"
    /\ \E core_tpls \in CoreTplChoices, shared \in BOOLEAN, wrap_groups \in BOOLEAN,
       blacklist_static \in Denylists, m \in MapChoices :
        /\ call' = [op |-> "_gather_core_tpl_libraries", class |-> "NetcdfC",
                    core_tpls |-> core_tpls, shared |-> shared,
                    wrap_groups |-> wrap_groups,
                    blacklist_static |-> blacklist_static,
                    query_map |-> m[1], override_libnames_map |-> m[2],
                    found |-> [t \in Range(core_tpls) |->
                                 NetcdfC_find_libraries(t, shared, <<>>, m[1], m[2])],
                    out |-> NetcdfC_gather_core_tpl_libraries(
                                core_tpls, m[1], m[2], blacklist_static, shared,
                                <<>>, wrap_groups)]
        /\ UNCHANGED <<spec_deps, spec_install, build_vars, package_vars>>

(***************************************************************************)
(* NetcdfC.configure_args: the LDFLAGS and LIBS it passes to configure.    *)
(* The --enable/--disable options, CFLAGS and CPPFLAGS are left out.       *)
(***************************************************************************)
\* the variants of netcdf-c and of its hdf dependency that add to LDFLAGS
\* and LIBS
NetcdfVariants ==
    {v \in SUBSET {"dap", "parallel-netcdf", "hdf4", "szip", "external-xdr"} :
        ("hdf4" \notin v) => (v \cap {"szip", "external-xdr"} = {})}

\* LibraryList.search_flags: -L<dir> for each directory of the libraries
search_flags(libs) ==
    JoinWs(dict_fromkeys([i \in 1..Len(libs) |->
                "-L" \o SubSeq(libs[i], 1, LastIndexOf(libs[i], "/") - 1)]))

\* the arguments of the call at lines 199-203
Hdf5GatherCall ==
    [core_tpls |-> <<"hdf5">>, query_map |-> [n \in {"hdf5"} |-> "hdf5:hl,fortran"],
     override_libnames_map |-> EmptyMap, blacklist_static |-> <<"sci_cray">>,
     shared |-> FALSE, required_shared |-> <<>>, wrap_groups |-> TRUE]

AllowMultipleDefinition == "-Wl,--allow-multiple-definition"

\* what dap adds before, and parallel-netcdf and hdf4 add after, the hdf5 part
LdflagsBeforeHdf5(variants) == IF "dap" \in variants THEN <<"-L/opt/curl/lib">> ELSE <<>>
LibsBeforeHdf5(variants) == IF "dap" \in variants THEN <<"-lcurl">> ELSE <<>>
LdflagsAfterHdf5(variants) ==
    (IF "parallel-netcdf" \in variants THEN <<"-L/opt/parallel-netcdf/lib">> ELSE <<>>)
    \o (IF "hdf4" \in variants THEN <<"-L/opt/hdf/lib">> ELSE <<>>)
LibsAfterHdf5(variants) ==
    IF "hdf4" \in variants
    THEN <<"-ljpeg">> \o (IF "szip" \in variants THEN <<"-lsz">> ELSE <<>>)
                      \o (IF "external-xdr" \in variants THEN <<"-ltirpc">> ELSE <<>>)
    ELSE <<>>

\* hdf5_hl.libs: the libraries of spec['hdf5:hl'], of the kind its shared
\* variant says
Hdf5HlLibs(hdf5_shared) ==
    LET hdf5_hl == SpecLookup("hdf5:hl")
        names == LibsNames(hdf5_hl)
    IN find_libraries([i \in 1..Len(names) |-> "lib" \o names[i]], hdf5_hl, hdf5_shared)

\* what hdf5 adds when configure_args does not go on
Hdf5Raised == [raised |-> TRUE, gather |-> <<>>, out |-> EmptyMap, ldflags |-> <<>>, libs |-> <<>>]

\* lines 206-207: ldflags.append(hdf5_hl.libs.search_flags)
Hdf5SearchFlags(hdf5_libs) ==
    [raised |-> FALSE, gather |-> <<>>, out |-> EmptyMap,
     ldflags |-> <<search_flags(hdf5_libs)>>, libs |-> <<>>]

\* lines 204-205, from the call c and what it returned
Hdf5Collected(c, out) ==
    [raised |-> FALSE, gather |-> <<c>>, out |-> out,
     ldflags |-> [i \in 1..Len(out["hdf5"].lib_dirs) |-> "-L" \o out["hdf5"].lib_dirs[i]]
                 \o <<AllowMultipleDefinition>>,
     libs |-> out["hdf5"].libs]

\* the hdf5 part as the lines commented out at 191-193 had it
NetcdfC_configure_args_hdf5_old(hdf5_shared) ==
    IF LibsRaises(SpecLookup("hdf5:hl")) THEN Hdf5Raised
    ELSE IF hdf5_shared THEN Hdf5SearchFlags(Hdf5HlLibs(hdf5_shared))
    ELSE [Hdf5SearchFlags(Hdf5HlLibs(hdf5_shared)) EXCEPT
             !.libs = <<JoinWs(Hdf5HlLibs(hdf5_shared))>>]

\* lines 189-207: what hdf5 adds to ldflags and libs, the collector call
\* made for it (none: <<>>) and what that call returned
NetcdfC_configure_args_hdf5(hdf5_shared) ==
    IF ~hdf5_shared
    THEN Hdf5Collected(Hdf5GatherCall,
                       NetcdfC_gather_core_tpl_libraries(
                           Hdf5GatherCall.core_tpls, Hdf5GatherCall.query_map,
                           Hdf5GatherCall.override_libnames_map,
                           Hdf5GatherCall.blacklist_static, Hdf5GatherCall.shared,
                           Hdf5GatherCall.required_shared, Hdf5GatherCall.wrap_groups))
    ELSE IF LibsRaises(SpecLookup("hdf5:hl")) THEN Hdf5Raised
    ELSE Hdf5SearchFlags(Hdf5HlLibs(hdf5_shared))

\* lines 245-246, from what hdf5 added: the 'LDFLAGS=' and 'LIBS=' arguments
ConfigArgs(h, ldflags, libs) ==
    IF h.raised
    THEN [raised |-> TRUE, gather |-> h.gather, out |-> h.out,
          ldflags |-> <<>>, libs |-> <<>>, config_args |-> <<>>]
    ELSE [raised |-> FALSE, gather |-> h.gather, out |-> h.out,
          ldflags |-> ldflags, libs |-> libs,
          config_args |-> <<"LDFLAGS=" \o JoinWs(ldflags), "LIBS=" \o JoinWs(libs)>>]

ConfigArgsWith(variants, h) ==
    ConfigArgs(h,
               LdflagsBeforeHdf5(variants) \o h.ldflags \o LdflagsAfterHdf5(variants),
               LibsBeforeHdf5(variants) \o h.libs \o LibsAfterHdf5(variants))

\* NetcdfC.configure_args
NetcdfC_configure_args(variants, hdf5_shared) ==
    ConfigArgsWith(variants, NetcdfC_configure_args_hdf5(hdf5_shared))

\* the build system asks the netcdf-c recipe for its configure arguments
NetcdfConfigureArgs ==
    /\ call.op = "none"
    /\ \E variants \in NetcdfVariants, hdf5_shared \in BOOLEAN :
        LET r == NetcdfC_configure_args(variants, hdf5_shared)
        IN call' = [op |-> "configure_args", class |-> "NetcdfC", variants |-> variants,
                    hdf5_shared |-> hdf5_shared, raised |-> r.raised, gather |-> r.gather,
                    out |-> r.out, ldflags |-> r.ldflags, libs |-> r.libs,
                    config_args |-> r.config_args]
    /\ UNCHANGED <<spec_deps, spec_install, build_vars, package_vars>>

(***************************************************************************)
(* Part 2: the atdm-trilinos cmake step.  Every build is a process of its  *)
(* own; all of them write the environment script to /tmp/spack_magic and   *)
(* source it back.                                                         *)
(***************************************************************************)
Builds == {"b1", "b2"}
ExecSpaces == {"serial", "openmp", "hip"}

\* d[k] = v on a dictionary
Put(d, k, v) == [n \in DOMAIN d \cup {k} |-> IF n = k THEN v ELSE d[n]]

\* os.environ of a build process when the cmake step starts
BaseEnviron ==
    [n \in {"PATH", "LD_LIBRARY_PATH"} |->
        IF n = "PATH" THEN "/usr/bin" ELSE "/usr/lib"]

\* what the loaded modules may set: name, value
ModuleVarPool ==
    << <<"LD_LIBRARY_PATH", "/opt/cray/lib">>,
       <<"CRAY_MPICH_ROOT", " /opt/cray/mpich ">>,
       <<"HIP_ROOT_DIR", "/opt/rocm">>,
       <<"MY_ATDM_DIR", "/home/atdm">>,
       <<"MPI90", "ftn">>,
       <<"MPICC_OPTS", "-O2">>,
       <<"BASH_FUNC_module%%", "() {  eval x\n}">> >>

ModuleEnvs == {m \in SubLists(ModuleVarPool) : Len(m) <= MaxModuleVars}

\* a statement of the generated script
Export(name, value) == [op |-> "export", name |-> name, value |-> value]
\* : "${NAME:=value}" ; export NAME
DefaultExport(name, value) == [op |-> "default", name |-> name, value |-> value]
\* export NAME="$REF"
ExportRef(name, ref) == [op |-> "ref", name |-> name, value |-> ref]
\* module purge ; module load ...
ModuleLoad == [op |-> "module", name |-> "", value |-> ""]

\* a toggle that is never off
OnOffStuck(b) == "ON"

OnOff(b) == IF b THEN "ON" ELSE "OFF"

\* str.lower()
UpperCase == "ABCDEFGHIJKLMNOPQRSTUVWXYZ"
LowerCase == "abcdefghijklmnopqrstuvwxyz"

RECURSIVE Lower(_)
Lower(s) ==
    IF s = "" THEN ""
    ELSE LET c == SubSeq(s, 1, 1)
             u == FirstIndexOf(UpperCase, c)
         IN (IF u = 0 THEN c ELSE SubSeq(LowerCase, u, u)) \o Lower(SubSeq(s, 2, Len(s)))

\* str.upper()
RECURSIVE Upper(_)
Upper(s) ==
    IF s = "" THEN ""
    ELSE LET c == SubSeq(s, 1, 1)
             l == FirstIndexOf(LowerCase, c)
         IN (IF l = 0 THEN c ELSE SubSeq(UpperCase, l, l)) \o Upper(SubSeq(s, 2, Len(s)))

\* os.environ.get(key, default)
EnvironGet(environ, key, default) == IF key \in DOMAIN environ THEN environ[key] ELSE default

\* Kokkos.spack_micro_arch_map[self.spec.target.name]
spack_micro_arch_map == [t \in {"zen2"} |-> "zen2"]

\* a generation that goes on when the accelerator target is not set
MissingAccelTargetIgnored(self) == FALSE

\* accel_target is not 'none' and CRAY_ACCEL_TARGET is not in os.environ
MissingAccelTarget(self) ==
    self.accel_target # "none" /\ "CRAY_ACCEL_TARGET" \notin DOMAIN self.environ

\* the part of _create_spack_atdm_env that computes kokkos_arch: how it
\* ends ("ok", "raise" for a failed lookup, "exit" for exit(-1)) and the
\* value it computes
KokkosArch(self) ==
    LET map == self.targets_to_kokkos_map
        cpu_set == "CRAY_CPU_TARGET" \in DOMAIN self.environ
        cpu_raises == IF cpu_set THEN self.environ["CRAY_CPU_TARGET"] \notin DOMAIN map
                      ELSE self.target \notin DOMAIN spack_micro_arch_map
        cpu_arch == IF cpu_set THEN map[self.environ["CRAY_CPU_TARGET"]]
                    ELSE Upper(spack_micro_arch_map[self.target])
    IN IF cpu_raises THEN [end |-> "raise", arch |-> ""]
       ELSE IF self.accel_target = "none" THEN [end |-> "ok", arch |-> cpu_arch]
       ELSE IF MissingAccelTarget(self) THEN [end |-> "exit", arch |-> ""]
       ELSE IF EnvironGet(self.environ, "CRAY_ACCEL_TARGET", "") \notin DOMAIN map
            THEN [end |-> "raise", arch |-> ""]
       ELSE [end |-> "ok",
             arch |-> cpu_arch \o ";" \o map[self.environ["CRAY_ACCEL_TARGET"]]]

\* _get_compiler_name_version: self.compiler.name, self.compiler.version
_get_compiler_name_version == <<"cce", "11">>

\* _get_true_name_version(spec_name): name and version of the provider
_get_true_name_version(spec_name) ==
    IF spec_name = "mpi" THEN <<"mpich", "8">> ELSE <<spec_name, "4">>

\* _get_atdm_compiler_config_name
_get_atdm_compiler_config_name(exec_space) ==
    LET compiler == _get_compiler_name_version
        mpi == _get_true_name_version("mpi")
        rocm == _get_true_name_version("rocm")
        name0 == compiler[1] \o "-" \o compiler[2]
        name1 == IF exec_space = "rocm" THEN name0 \o "_" \o rocm[1] \o "-" \o rocm[2]
                 ELSE IF exec_space = "openmp" THEN name0 \o "_openmp"
                 ELSE name0
    IN name1 \o "_" \o mpi[1] \o "-" \o mpi[2]

\* _create_spack_atdm_env: the statements of environment.sh for the variants
\* of a build (the statements that set the environment; the TPL block is the
\* one of hdf5)
_create_spack_atdm_env(self) ==
    LET exec_space == Lower(self.exec_space)
        override_mpicxx == IF exec_space = "hip" THEN "/usr/bin/mpicxx" ELSE ""
        override_inner == IF exec_space = "hip" THEN "/opt/rocm/bin/hipcc" ELSE ""
        atdm_config_compiler == _get_atdm_compiler_config_name(self.exec_space)
        build_name == "spack_magic-" \o atdm_config_compiler \o "-release-" \o exec_space
    IN    <<ModuleLoad,
            DefaultExport("HDF5_ROOT", "/opt/hdf5"),
            Export("ATDM_CONFIG_HDF5_LIBS", "/opt/hdf5/lib/libhdf5.a"),
            Export("BINUTILS_ROOT", EnvironGet(self.environ, "CRAY_BINUTILS_ROOT", "")),
            Export("ATDM_CONFIG_KOKKOS_ARCH", KokkosArch(self).arch),
            Export("ATDM_CONFIG_USE_HIP", OnOff(exec_space = "hip")),
            Export("ATDM_CONFIG_USE_CUDA", OnOff(exec_space = "cuda")),
            Export("ATDM_CONFIG_USE_OPENMP", OnOff(exec_space = "openmp")),
            Export("ATDM_CONFIG_OVERRIDE_MPICXX", override_mpicxx),
            Export("ATDM_CONFIG_OVERRIDE_MPICXX_INNER_COMPILER", override_inner)>>
       \o (IF exec_space = "hip"
           THEN <<DefaultExport("HIP_ROOT", "/opt/rocm"),
                  ExportRef("ATDM_CONFIG_HIP_ROOT", "HIP_ROOT")>>
           ELSE <<>>)
       \o <<Export("MPICC", "cc"), Export("MPICXX", "CC"), Export("MPIF90", "ftn")>>
       \o (IF override_mpicxx # "" THEN <<Export("MPICXX", override_mpicxx)>> ELSE <<>>)
       \o (IF override_inner # ""
           THEN <<Export("OMPI_CXX", override_inner), Export("MPICH_CXX", override_inner)>>
           ELSE <<>>)
       \o <<Export("ATDM_CONFIG_COMPILER", atdm_config_compiler),
            Export("ATDM_CONFIG_BUILD_NAME", build_name),
            Export("ATDM_CONFIG_CUSTOM_CONFIG_DIR", "/tmp/spack_magic"),
            Export("ATDM_CONFIG_COMPLETED_ENV_SETUP", "TRUE")>>

\* _write_spack_magic_custom_builds: the content of custom_builds.sh
_write_spack_magic_custom_builds(exec_space) ==
    <<Export("ATDM_CONFIG_COMPILER", _get_atdm_compiler_config_name(exec_space))>>

\* the variables the modules set, applied to an environment
RECURSIVE ApplyModules(_, _)
ApplyModules(mods, env) ==
    IF mods = <<>> THEN env
    ELSE ApplyModules(Tail(mods), Put(env, Head(mods)[1], Head(mods)[2]))

\* bash running one statement
RunStatement(st, env) ==
    CASE st.op = "export" -> Put(env, st.name, st.value)
      [] st.op = "default" ->
            IF st.name \in DOMAIN env /\ env[st.name] # "" THEN env
            ELSE Put(env, st.name, st.value)
      [] st.op = "ref" ->
            Put(env, st.name, IF st.value \in DOMAIN env THEN env[st.value] ELSE "")
      [] st.op = "module" -> ApplyModules(module_env, env)
      [] OTHER -> env

\* bash -c 'source environment.sh && env': the environment after the script
RECURSIVE RunScript(_, _)
RunScript(script, env) ==
    IF script = <<>> THEN env
    ELSE RunScript(Tail(script), RunStatement(Head(script), env))

\* the names of a dictionary in a fixed order (the order `env` prints in)
RECURSIVE SortedNames(_)
SortedNames(S) ==
    IF S = {} THEN <<>>
    ELSE LET n == CHOOSE x \in S : TRUE
         IN <<n>> \o SortedNames(S \ {n})

\* the text `NAME=value\n`, cut into lines as iterating proc.stdout does:
\* every line ends with its newline
RECURSIVE SplitLines(_)
SplitLines(text) ==
    IF text = "" THEN <<>>
    ELSE LET nl == FirstIndexOf(text, "\n")
         IN IF nl = 0 THEN <<text>>
            ELSE <<SubSeq(text, 1, nl)>> \o SplitLines(SubSeq(text, nl + 1, Len(text)))

EnvOutput(env) ==
    LET names == SortedNames(DOMAIN env)
    IN ConcatAll([i \in 1..Len(names) |->
                    SplitLines(names[i] \o "=" \o env[names[i]] \o "\n")])

\* str.strip()
Whitespace == {" ", "\t", "\n", "\r"}

RECURSIVE LStrip(_)
LStrip(s) ==
    IF s # "" /\ SubSeq(s, 1, 1) \in Whitespace THEN LStrip(SubSeq(s, 2, Len(s))) ELSE s

RECURSIVE RStrip(_)
RStrip(s) ==
    IF s # "" /\ SubSeq(s, Len(s), Len(s)) \in Whitespace
    THEN RStrip(SubSeq(s, 1, Len(s) - 1)) ELSE s

Strip(s) == RStrip(LStrip(s))

\* '.*$' at the end of a pattern: the rest of the string holds no newline,
\* but for one that ends it
DotStarDollar(rest) ==
    LET nl == FirstIndexOf(rest, "\n")
    IN nl = 0 \/ nl = Len(rest)

\* the string without the newline that ends it
Chomp(s) == IF EndsWith(s, "\n") THEN SubSeq(s, 1, Len(s) - 1) ELSE s

\* an importer that searches for the patterns anywhere in the name
add_value_search(key) ==
    \/ Contains(key, "ATDM_")
    \/ \E w \in {"MPICC", "MPICXX", "MPI90", "MPICH_CXX", "OMPI_CXX"} : Contains(key, w)
    \/ Contains(key, "_ROOT")

\* should we add the var?  The three re.match tests on key
add_value(key) ==
    \/ (StartsWith(key, "ATDM_") /\ DotStarDollar(SubSeq(key, 6, Len(key))))
    \/ Chomp(key) \in {"MPICC", "MPICXX", "MPI90", "MPICH_CXX", "OMPI_CXX"}
    \/ (DotStarDollar(key) /\ EndsWith(Chomp(key), "_ROOT"))

\* the loop over the lines of proc.stdout
RECURSIVE ImportLines(_, _)
ImportLines(lines, environ) ==
    IF lines = <<>> THEN environ
    ELSE LET line == Head(lines)
             eq == FirstIndexOf(line, "=")
             key == IF eq = 0 THEN line ELSE SubSeq(line, 1, eq - 1)
             value == Strip(IF eq = 0 THEN "" ELSE SubSeq(line, eq + 1, Len(line)))
         IN ImportLines(Tail(lines),
                        IF add_value(key) THEN Put(environ, key, value) ELSE environ)

NoFile == [exists |-> FALSE, text |-> <<>>]
\* a directory /tmp/spack_magic with neither file written yet
EmptyDir == [f \in {"environment.sh", "custom_builds.sh"} |-> NoFile]
File(text) == [exists |-> TRUE, text |-> text]
NotSourced == [done |-> FALSE, script |-> <<>>, env |-> EmptyMap]

\* a step the recipe has run to its end: what ran, its options, its exit code
Step(name, opts, rc) == [name |-> name, opts |-> opts, rc |-> rc]

\* a build that starts the sourcing subprocess as soon as environment.sh is
\* open
ReadyToSourceEarly(b) == build[b].pc \in {"env_open", "env_written", "written"}

\* cmake() calls _source_spack_magic_and_add_env once _write_spack_magic
\* has returned
ReadyToSource(b) == build[b].pc = "written"

\* CMakePackage.generator
Generators == {"Unix Makefiles", "Ninja"}

\* the values of the exec_space variant a single build is checked with
RecipeExecSpaces == ExecSpaces \cup {"cuda", "rocm"}

\* a build process at the point pc of the recipe
NewBuild(pc, exec_space, generator) ==
    [pc |-> pc, exec_space |-> exec_space, generator |-> generator,
     environ |-> BaseEnviron, environ0 |-> BaseEnviron, sourced |-> NotSourced,
     copied |-> EmptyDir, steps |-> <<>>, status |-> "running",
     accel_target |-> "none", target |-> "zen2", targets_to_kokkos_map |-> EmptyMap]

BuildInit ==
    /\ tmp_spack_magic = EmptyDir
    /\ module_env \in ModuleEnvs
    /\ build \in [Builds -> {NewBuild("start", e, "Unix Makefiles") : e \in ExecSpaces}]

\* _write_spack_magic_trilinos_env: open(spack_env_file, "w") creates or
\* truncates /tmp/spack_magic/environment.sh
OpenEnvironmentSh(b) ==
    /\ build[b].pc = "start"
    /\ tmp_spack_magic' = [tmp_spack_magic EXCEPT !["environment.sh"] = File(<<>>)]
    /\ build' = [build EXCEPT ![b].pc = "env_open",
                              ![b].steps = @ \o <<Step("open environment.sh", <<>>, 0)>>]
    /\ UNCHANGED <<module_env, collector_vars, package_vars>>

\* fptr.write(self._create_spack_atdm_env()), and the file is closed
\* when the generation does not return, nothing is written to the open
\* file: exit(-1) ends the process, an exception ends the recipe
WriteEnvironmentSh(b) ==
    /\ build[b].pc = "env_open"
    /\ LET end == KokkosArch(build[b]).end
       IN IF end = "ok"
          THEN /\ tmp_spack_magic' = [tmp_spack_magic EXCEPT !["environment.sh"] =
                                         File(_create_spack_atdm_env(build[b]))]
               /\ build' = [build EXCEPT ![b].pc = "env_written",
                                         ![b].steps = @ \o <<Step("write environment.sh", <<>>, 0)>>]
          ELSE /\ tmp_spack_magic' = tmp_spack_magic
               /\ build' = [build EXCEPT ![b].pc = "aborted",
                                         ![b].status = IF end = "exit" THEN "exited" ELSE "failed"]
    /\ UNCHANGED <<module_env, collector_vars, package_vars>>

\* _write_spack_magic_custom_builds
WriteCustomBuilds(b) ==
    /\ build[b].pc = "env_written"
    /\ tmp_spack_magic' = [tmp_spack_magic EXCEPT !["custom_builds.sh"] =
                              File(_write_spack_magic_custom_builds(build[b].exec_space))]
    /\ build' = [build EXCEPT ![b].pc = "written",
                              ![b].steps = @ \o <<Step("write custom_builds.sh", <<>>, 0)>>]
    /\ UNCHANGED <<module_env, collector_vars, package_vars>>

\* _source_spack_magic_and_add_env: the shell sources the file as it is now,
\* prints its environment, and the allowed variables are put in os.environ
_source_spack_magic_and_add_env(b) ==
    /\ ReadyToSource(b)
    /\ LET script == tmp_spack_magic["environment.sh"].text
           env == RunScript(script, build[b].environ)
       IN build' = [build EXCEPT ![b].pc = "sourced",
                                 ![b].steps = @ \o <<Step("source environment.sh", <<>>, 0)>>,
                                 ![b].environ0 = build[b].environ,
                                 ![b].sourced = [done |-> TRUE, script |-> script, env |-> env],
                                 ![b].environ = ImportLines(EnvOutput(env), build[b].environ)]
    /\ UNCHANGED <<tmp_spack_magic, module_env, collector_vars, package_vars>>

\* the rest of cmake(): the directory is copied into the Trilinos sources
\* when ATDM_CONFIG_CUSTOM_CONFIG_DIR is set, and CMake runs
Cmake(b) ==
    /\ build[b].pc = "sourced"
    /\ build' = [build EXCEPT ![b].pc = "cmake_done",
                              ![b].steps = @ \o <<Step("cmake", <<>>, 0)>>,
                              ![b].copied =
                                  IF "ATDM_CONFIG_CUSTOM_CONFIG_DIR" \in DOMAIN build[b].environ
                                  THEN tmp_spack_magic
                                  ELSE EmptyDir]
    /\ UNCHANGED <<tmp_spack_magic, module_env, collector_vars, package_vars>>

(***************************************************************************)
(* The build and check steps of the atdm-trilinos recipe.                  *)
(***************************************************************************)
\* the exit codes of a native tool
ExitCodes == {0, 1}

\* Executable.__call__: a non-zero exit raises ProcessError unless
\* fail_on_error=False was passed
Raises(rc, fail_on_error) == fail_on_error /\ rc # 0

\* a build step that lets a failing build tool abort the recipe
BuildFailOnErrorStrict == TRUE

\* build(): make and ninja are called with fail_on_error=False
BuildFailOnError == FALSE

\* build(): the options added to self.build_targets
BuildTool(generator) == IF generator = "Unix Makefiles" THEN "make" ELSE "ninja"
BuildOpts(generator) == IF generator = "Unix Makefiles" THEN <<"-ik">> ELSE <<"-k 0">>

\* a check step whose first test run is strict too
CtestFailOnErrorAllStrict == <<TRUE, FALSE, TRUE>>

\* check(): fail_on_error of the three ctest calls (the third takes the
\* default)
CtestFailOnError == <<FALSE, FALSE, TRUE>>

\* check(): the options of the three ctest calls
CtestTimeout == <<"--test-timeout 300", "--timeout 300">>
CtestOpts ==
    << <<"-j 8">> \o CtestTimeout,
       <<"--rerun-failed", "-j 4">> \o CtestTimeout,
       <<"-VV", "--rerun-failed", "-j 1">> \o CtestTimeout >>

\* the build process after a native tool has exited with rc: the step is
\* logged, and the recipe goes on to `next` or fails with ProcessError
AfterTool(b, name, opts, rc, fail_on_error, next) ==
    [build EXCEPT ![b].steps = @ \o <<Step(name, opts, rc)>>,
                  ![b].pc = IF Raises(rc, fail_on_error) THEN "aborted" ELSE next,
                  ![b].status = IF Raises(rc, fail_on_error) THEN "failed"
                                ELSE IF next = "checked" THEN "checked" ELSE @]

\* build(self, spec, prefix)
Build(b) ==
    /\ build[b].pc = "cmake_done"
    /\ \E rc \in ExitCodes :
          build' = AfterTool(b, BuildTool(build[b].generator), BuildOpts(build[b].generator),
                             rc, BuildFailOnError, "built")
    /\ UNCHANGED <<tmp_spack_magic, module_env, collector_vars, package_vars>>

\* check(self), run after build: the i-th ctest call
Ctest(b, i) ==
    /\ build[b].pc = (<<"built", "tested1", "tested2">>)[i]
    /\ \E rc \in ExitCodes :
          build' = AfterTool(b, "ctest", CtestOpts[i], rc, CtestFailOnError[i],
                             (<<"tested1", "tested2", "checked">>)[i])
    /\ UNCHANGED <<tmp_spack_magic, module_env, collector_vars, package_vars>>

(***************************************************************************)
(* Part 4: the configuration loader of the atdm-trilinos recipe.  A dict   *)
(* is the sequence of its items [k, val] in insertion order; a value is a  *)
(* scalar or a mapping.                                                    *)
(***************************************************************************)
Scalar(v) == [kind |-> "scalar", v |-> v, m |-> <<>>]
Mapping(m) == [kind |-> "map", v |-> "", m |-> m]
Item(k, val) == [k |-> k, val |-> val]

\* k in d, d[k], d[k] = val, d.keys()
DictHas(d, k) == \E i \in 1..Len(d) : d[i].k = k
DictGet(d, k) == d[CHOOSE i \in 1..Len(d) : d[i].k = k].val
DictSet(d, k, val) ==
    IF DictHas(d, k) THEN [i \in 1..Len(d) |-> IF d[i].k = k THEN Item(k, val) ELSE d[i]]
    ELSE d \o <<Item(k, val)>>
DictKeys(d) == [i \in 1..Len(d) |-> d[i].k]

\* the outcome of a merge: the dictionary, or a raise (d.get or d[k] = v on
\* a value that is no dictionary)
Returned(d) == [raised |-> FALSE, d |-> d]
Raised(d) == [raised |-> TRUE, d |-> d]

\* a merge in which the platform's note replaces the policy's
RECURSIVE recursive_update_plain(_, _)
recursive_update_plain(d, u) ==
    IF u = <<>> THEN Returned(d)
    ELSE LET k == Head(u).k
             v == Head(u).val
             old == IF DictHas(d, k) THEN DictGet(d, k) ELSE Mapping(<<>>)
             sub == recursive_update_plain(old.m, v.m)
             d1 == IF v.kind = "map"
                   THEN IF old.kind = "map"
                        THEN IF sub.raised THEN Raised(d)
                             ELSE Returned(DictSet(d, k, Mapping(sub.d)))
                        ELSE IF v.m = <<>> THEN Returned(DictSet(d, k, old))
                        ELSE Raised(d)
                   ELSE Returned(DictSet(d, k, v))
         IN IF d1.raised THEN d1 ELSE recursive_update_plain(d1.d, Tail(u))

\* _atdmtrilinos_recursive_update(d, u).  Where u[k] is a mapping and d[k]
\* is none, the call on d.get(k, {}) returns d[k] as it is when u[k] is
\* empty and raises on its first key otherwise.
RECURSIVE _atdmtrilinos_recursive_update(_, _)
_atdmtrilinos_recursive_update(d, u) ==
    IF u = <<>> THEN Returned(d)
    ELSE LET k == Head(u).k
             v == Head(u).val
             old == IF DictHas(d, k) THEN DictGet(d, k) ELSE Mapping(<<>>)
             sub == _atdmtrilinos_recursive_update(old.m, v.m)
             d1 == IF v.kind = "map"
                   THEN IF old.kind = "map"
                        THEN IF sub.raised THEN Raised(d)
                             ELSE Returned(DictSet(d, k, Mapping(sub.d)))
                        ELSE IF v.m = <<>> THEN Returned(DictSet(d, k, old))
                        ELSE Raised(d)
                   ELSE IF k = "note" /\ DictHas(d, k)
                   THEN Returned(DictSet(d, k, Scalar("All platforms: " \o DictGet(d, k).v
                                                      \o ". [Platform specific note]: " \o v.v)))
                   ELSE Returned(DictSet(d, k, v))
         IN IF d1.raised THEN d1 ELSE _atdmtrilinos_recursive_update(d1.d, Tail(u))

\* a loader that goes on after an I/O failure, with the data of an earlier
\* read
_atdmtrilinos_load_yaml_lenient(file) ==
    [died |-> FALSE, diagnostic |-> "", data |-> file.data]

\* _atdmtrilinos_load_yaml(file_name, yaml_key): the data under the key, or
\* tty.die on IOError
_atdmtrilinos_load_yaml(file) ==
    IF file.readable THEN [died |-> FALSE, diagnostic |-> "", data |-> file.data]
    ELSE [died |-> TRUE, diagnostic |-> "Error reading " \o file.name, data |-> <<>>]

\* a loop body that drops the top-level values of a virtual package that has
\* provider specs
MassageVirtualNoCopy(vpkg, _vconf) ==
    LET specs == SelectSeq(_vconf, LAMBDA e : e.val.kind = "map")
    IN [died |-> FALSE, diagnostic |-> "",
        vconf |-> IF specs = <<>> THEN DictSet(_vconf, "_disable_variant", Scalar("True"))
                  ELSE specs]

\* a loop body in which a top-level value replaces the provider's own
MassageVirtualOverwrite(vpkg, _vconf) ==
    LET vals == SelectSeq(_vconf, LAMBDA e : e.val.kind # "map")
        specs == SelectSeq(_vconf, LAMBDA e : e.val.kind = "map")
        SetAll(m) == [i \in 1..Len(m) |->
                         IF DictHas(vals, m[i].k) THEN Item(m[i].k, DictGet(vals, m[i].k))
                         ELSE m[i]]
                     \o SelectSeq(vals, LAMBDA e : ~DictHas(m, e.k))
    IN [died |-> FALSE, diagnostic |-> "",
        vconf |-> IF specs = <<>> THEN DictSet(_vconf, "_disable_variant", Scalar("True"))
                  ELSE [i \in 1..Len(specs) |-> Item(specs[i].k, Mapping(SetAll(specs[i].val.m)))]]

\* the loop body of _atdmtrilinos_load_config for one virtual package whose
\* entry _vconf is not empty
MassageVirtual(vpkg, _vconf) ==
    LET vals == SelectSeq(_vconf, LAMBDA e : e.val.kind # "map")
        specs == SelectSeq(_vconf, LAMBDA e : e.val.kind = "map")
        clash == {<<i, j>> \in (1..Len(specs)) \X (1..Len(vals)) :
                     DictHas(specs[i].val.m, vals[j].k)}
        first == CHOOSE c \in clash :
                    \A o \in clash : c[1] < o[1] \/ (c[1] = o[1] /\ c[2] <= o[2])
    IN IF Len(_vconf) = Len(vals)
       THEN [died |-> FALSE, diagnostic |-> "",
             vconf |-> DictSet(_vconf, "_disable_variant", Scalar("True"))]
       ELSE IF clash # {}
       THEN [died |-> TRUE,
             diagnostic |-> "Found duplicate key in top-level virtual package " \o vpkg
                            \o " and spec " \o specs[first[1]].k \o ". Key=" \o vals[first[2]].k,
             vconf |-> _vconf]
       ELSE [died |-> FALSE, diagnostic |-> "",
             vconf |-> [i \in 1..Len(specs) |->
                          Item(specs[i].k, Mapping(specs[i].val.m \o vals))]]

virtual_packages == <<"mpi", "lapack", "blas">>

\* the loop over virtual_packages, from the i-th on, over config['tpls']
RECURSIVE MassageFrom(_, _)
MassageFrom(i, tpls) ==
    IF i > Len(virtual_packages) THEN [died |-> FALSE, diagnostic |-> "", tpls |-> tpls]
    ELSE LET vpkg == virtual_packages[i]
             _vconf == IF DictHas(tpls, vpkg) THEN DictGet(tpls, vpkg).m ELSE <<>>
             r == MassageVirtual(vpkg, _vconf)
         IN IF _vconf = <<>> THEN MassageFrom(i + 1, tpls)
            ELSE IF r.died THEN [died |-> TRUE, diagnostic |-> r.diagnostic, tpls |-> tpls]
            ELSE MassageFrom(i + 1, DictSet(tpls, vpkg, Mapping(r.vconf)))

\* _atdmtrilinos_load_config(platform_name): how it ends, what it prints
\* when it dies, the merged configuration and the configuration it returns
_atdmtrilinos_load_config(files) ==
    LET policy == _atdmtrilinos_load_yaml(files.policy)
        platform_config == _atdmtrilinos_load_yaml(files.platform)
        update == _atdmtrilinos_recursive_update(policy.data, platform_config.data)
        merged == update.d
        r == MassageFrom(1, DictGet(merged, "tpls").m)
        died(diagnostic) == [end |-> "died", diagnostic |-> diagnostic,
                             merged |-> <<>>, config |-> <<>>]
    IN IF policy.died THEN died(policy.diagnostic)
       ELSE IF platform_config.died THEN died(platform_config.diagnostic)
       ELSE IF update.raised
       THEN [end |-> "raised", diagnostic |-> "", merged |-> <<>>, config |-> <<>>]
       ELSE IF r.died THEN [died(r.diagnostic) EXCEPT !.merged = merged]
       ELSE [end |-> "returned", diagnostic |-> "", merged |-> merged,
             config |-> DictSet(merged, "tpls", Mapping(r.tpls))]

\* what policy.yaml and platform/<name>.yaml may say about a virtual package
NoEntry == [present |-> FALSE, d |-> <<>>]
Entry_(d) == [present |-> TRUE, d |-> d]

PolicyEntries ==
    {NoEntry,
     Entry_(<<>>),
     Entry_(<<Item("note", Scalar("use the vendor library"))>>),
     Entry_(<<Item("libs", Scalar("-lpolicy"))>>)}

PlatformEntries ==
    {NoEntry,
     Entry_(<<Item("libs", Scalar("-lsci_cray")), Item("note", Scalar("from the PE"))>>),
     Entry_(<<Item("cray", Mapping(<<Item("default", Scalar("True"))>>)),
              Item("open", Mapping(<<>>))>>),
     Entry_(<<Item("note", Scalar("from the PE")),
              Item("cray", Mapping(<<Item("module", Scalar("cray/1"))>>)),
              Item("open", Mapping(<<>>))>>),
     Entry_(<<Item("libs", Scalar("-lplatform")),
              Item("cray", Mapping(<<Item("libs", Scalar("-lown"))>>))>>)}

\* the 'tpls' mapping of a file that has the entries e[vpkg]
TplsOf(e) ==
    LET one(vpkg) == IF e[vpkg].present THEN <<Item(vpkg, Mapping(e[vpkg].d))>> ELSE <<>>
    IN ConcatAll([i \in 1..Len(virtual_packages) |-> one(virtual_packages[i])])

YamlFile(name, readable, exec_spaces, e) ==
    [name |-> name, readable |-> readable,
     data |-> <<Item("exec_spaces", Scalar(exec_spaces)), Item("tpls", Mapping(TplsOf(e)))>>]

\* blas is configured like lapack or not at all
EntryChoices(pool) ==
    {e \in [{"mpi", "lapack", "blas"} -> pool] : e["blas"] \in {NoEntry, e["lapack"]}}

LoadInit ==
    \E pr, fr \in BOOLEAN, pe \in EntryChoices(PolicyEntries), fe \in EntryChoices(PlatformEntries) :
        load = [pc |-> "start",
                files |-> [policy |-> YamlFile("policy.yaml", pr, "serial", pe),
                           platform |-> YamlFile("platform/redwood.yaml", fr, "serial openmp", fe)],
                end |-> "", diagnostic |-> "", merged |-> <<>>, config |-> <<>>,
                declared |-> "", variants |-> <<>>]

\* the class body of AtdmTrilinos evaluates _atdmtrilinos_load_config
LoadConfig ==
    /\ load.pc = "start"
    /\ LET r == _atdmtrilinos_load_config(load.files)
       IN load' = [load EXCEPT !.pc = "done", !.end = r.end, !.diagnostic = r.diagnostic,
                               !.merged = r.merged, !.config = r.config]
    /\ UNCHANGED <<cray, merge, collector_vars, build_vars>>

\* the dictionaries _atdmtrilinos_recursive_update is applied to: a note, a
\* scalar, and a key that is absent, a scalar or a mapping of its own
MergeInner(tag) ==
    {<<>>,
     <<Item("note", Scalar(tag \o " provider note"))>>,
     <<Item("libs", Scalar("-l" \o tag))>>,
     <<Item("libs", Scalar("-l" \o tag)), Item("note", Scalar(tag \o " provider note"))>>}

MergeDicts(tag) ==
    LET notes == {<<>>, <<Item("note", Scalar(tag \o " note"))>>}
        libs == {<<>>, <<Item("libs", Scalar("-l" \o tag))>>}
        crays == {<<>>, <<Item("cray", Scalar(tag))>>}
                    \cup {<<Item("cray", Mapping(m))>> : m \in MergeInner(tag)}
    IN {n \o l \o c : n \in notes, l \in libs, c \in crays}

MergeIdle == merge = [pc |-> "idle", d |-> <<>>, u |-> <<>>, raised |-> FALSE, result |-> <<>>]

MergeInit ==
    \E d \in MergeDicts("policy"), u \in MergeDicts("platform") :
        merge = [pc |-> "start", d |-> d, u |-> u, raised |-> FALSE, result |-> <<>>]

\* config = _atdmtrilinos_recursive_update(policy, platform_config[platform_name])
RecursiveUpdate ==
    /\ merge.pc = "start"
    /\ LET r == _atdmtrilinos_recursive_update(merge.d, merge.u)
       IN merge' = [merge EXCEPT !.pc = "done", !.raised = r.raised,
                                 !.result = IF r.raised THEN <<>> ELSE r.d]
    /\ UNCHANGED <<load, cray, collector_vars, build_vars>>

\* Python's None, and the truth of a configuration value
None == [kind |-> "none", v |-> "", m |-> <<>>]
Truthy(val) == IF val.kind = "map" THEN val.m # <<>> ELSE val.v \notin {"", "False"}

\* the first key of search_map from the i-th on that has a true 'default'
RECURSIVE FirstFlaggedDefault(_, _)
FirstFlaggedDefault(search_map, i) ==
    IF i > Len(search_map) THEN None
    ELSE IF DictHas(search_map[i].val.m, "default")
            /\ Truthy(DictGet(search_map[i].val.m, "default"))
    THEN Scalar(search_map[i].k)
    ELSE FirstFlaggedDefault(search_map, i + 1)

\* _atdmtrilinos_default_in_dict(search_map), for a search_map that is not
\* empty: the function ends without a return statement when no key of
\* several has a true 'default'
_atdmtrilinos_default_in_dict(search_map) ==
    LET default == DictKeys(search_map)[1]
    IN IF Len(search_map) = 1 THEN Scalar(default)
       ELSE FirstFlaggedDefault(search_map, 1)

\* lines 224-231 and 234-241: the variant declared from config['tpls'][vpkg],
\* none when the entry carries _disable_variant
TplVariant(name, tpls, vpkg) ==
    IF ~DictHas(tpls, vpkg) THEN [raised |-> "KeyError", variants |-> <<>>]
    ELSE LET entry == DictGet(tpls, vpkg).m
         IN IF DictHas(entry, "_disable_variant") /\ Truthy(DictGet(entry, "_disable_variant"))
            THEN [raised |-> "", variants |-> <<>>]
            ELSE IF entry = <<>> THEN [raised |-> "IndexError", variants |-> <<>>]
            ELSE [raised |-> "",
                  variants |-> <<[name |-> name,
                                  default |-> _atdmtrilinos_default_in_dict(entry),
                                  values |-> DictKeys(entry)]>>]

\* the class body of AtdmTrilinos declares host_lapack and mpi_impl from
\* the configuration it loaded
DeclareTplVariants ==
    /\ load.pc = "done"
    /\ load.end = "returned"
    /\ load.declared = ""
    /\ LET tpls == DictGet(load.config, "tpls").m
           host_lapack == TplVariant("host_lapack", tpls, "lapack")
           mpi_impl == TplVariant("mpi_impl", tpls, "mpi")
       IN load' = [load EXCEPT
                      !.declared = IF host_lapack.raised # "" THEN host_lapack.raised
                                   ELSE IF mpi_impl.raised # "" THEN mpi_impl.raised
                                   ELSE "declared",
                      !.variants = IF host_lapack.raised # "" THEN <<>>
                                   ELSE IF mpi_impl.raised # "" THEN host_lapack.variants
                                   ELSE host_lapack.variants \o mpi_impl.variants]
    /\ UNCHANGED <<cray, merge, collector_vars, build_vars>>

(***************************************************************************)
(* Part 3: the cray-pe-targets recipe.                                     *)
(***************************************************************************)
\* variant("craype-host"), variant("craype-accel")
CrayPeHosts == {"naples", "rome"}
CrayPeAccels == {"mi60", "mi100", "none"}

\* a variant constraint such as craype-accel=mi60
Constraint(variant, value) == [variant |-> variant, value |-> value]
Satisfies(spec, c) == spec[c.variant] = c.value

\* the recipe with its first conflicts directive only
CrayPeTargets_conflicts_first ==
    <<[conflict |-> Constraint("accel", "mi60"), when |-> Constraint("host", "rome")]>>

\* the conflicts directives of the recipe
CrayPeTargets_conflicts ==
    <<[conflict |-> Constraint("accel", "mi60"), when |-> Constraint("host", "rome")],
      [conflict |-> Constraint("accel", "mi100"), when |-> Constraint("host", "naples")]>>

\* a spec with declared variant values is rejected when it satisfies the
\* conflict and the when constraint of one directive
CrayPeTargets_validate(spec) ==
    IF \E i \in 1..Len(CrayPeTargets_conflicts) :
          /\ Satisfies(spec, CrayPeTargets_conflicts[i].when)
          /\ Satisfies(spec, CrayPeTargets_conflicts[i].conflict)
    THEN "conflict" ELSE "accepted"

\* self.spec.format('{name} is not installable, ...')
CrayPeTargets_message(spec) ==
    spec.name \o " is not installable, you need to specify it as an external package in packages.yaml"

\* an install that puts a module file in the prefix when there is no
\* accelerator
CrayPeTargets_install_files(spec, prefix) ==
    IF spec.accel = "none"
    THEN [raised |-> "", message |-> "", prefix |-> prefix \cup {"craype-" \o spec.host}]
    ELSE [raised |-> "InstallError", message |-> CrayPeTargets_message(spec), prefix |-> prefix]

\* install(self, spec, prefix): what is raised, with which message, and the
\* files of the prefix afterwards
CrayPeTargets_install(spec, prefix) ==
    [raised |-> "InstallError", message |-> CrayPeTargets_message(spec), prefix |-> prefix]

\* the install phase of a cray-pe-targets spec
CrayPeTargetsInstall ==
    /\ cray.pc = "start"
    /\ LET r == CrayPeTargets_install(cray.spec, cray.prefix)
       IN cray' = [cray EXCEPT !.pc = IF r.raised = "" THEN "installed" ELSE "failed",
                               !.raised = r.raised, !.message = r.message,
                               !.prefix = r.prefix]
    /\ UNCHANGED <<load, merge, collector_vars, build_vars>>

\* the concretizer checks the spec against the conflicts of the recipe
CrayPeTargetsConcretize ==
    /\ cray.pc = "start"
    /\ cray.concretized = ""
    /\ cray' = [cray EXCEPT !.concretized = CrayPeTargets_validate(cray.spec)]
    /\ UNCHANGED <<load, merge, collector_vars, build_vars>>

CrayInit ==
    \E h \in CrayPeHosts, a \in CrayPeAccels :
        cray = [pc |-> "start",
                spec |-> [name |-> "cray-pe-targets", version |-> "all", host |-> h, accel |-> a],
                prefix |-> {}, raised |-> "", message |-> "", concretized |-> ""]

(***************************************************************************)
(* Specifications.                                                         *)
(***************************************************************************)
\* the build processes, idle
BuildIdle ==
    /\ tmp_spack_magic = EmptyDir
    /\ module_env = <<>>
    /\ build = [b \in Builds |-> NewBuild("idle", "serial", "Unix Makefiles")]

\* the collector, not called
CollectorIdle ==
    /\ spec_deps = [p \in PkgSet |-> <<>>]
    /\ spec_install = [p \in PkgSet |-> "static"]
    /\ call = NoCall

\* no recipe is being evaluated
LoadIdle ==
    /\ load = [pc |-> "idle",
               files |-> [policy |-> YamlFile("policy.yaml", TRUE, "serial", [v \in {"mpi", "lapack", "blas"} |-> NoEntry]),
                          platform |-> YamlFile("platform/redwood.yaml", TRUE, "serial", [v \in {"mpi", "lapack", "blas"} |-> NoEntry])],
               end |-> "", diagnostic |-> "", merged |-> <<>>, config |-> <<>>,
               declared |-> "", variants |-> <<>>]
    /\ cray = [pc |-> "idle",
               spec |-> [name |-> "cray-pe-targets", version |-> "all", host |-> "naples", accel |-> "none"],
               prefix |-> {}, raised |-> "", message |-> "", concretized |-> ""]

PackagesIdle == LoadIdle /\ MergeIdle

\* the collector applied to a resolved specification
Init == CollectorInit /\ BuildIdle /\ PackagesIdle

Next ==
    \/ AtdmFindLibraries
    \/ NetcdfFindLibraries
    \/ AtdmGather
    \/ NetcdfGather

Spec == Init /\ [][Next]_vars

\* the netcdf-c recipe configured against a resolved specification
NextConfigure == NetcdfConfigureArgs

SpecConfigure == Init /\ [][NextConfigure]_vars

\* two builds of the atdm-trilinos recipe running their cmake step
InitBuild == CollectorIdle /\ BuildInit /\ PackagesIdle

NextBuild ==
    \E b \in Builds :
        \/ OpenEnvironmentSh(b)
        \/ WriteEnvironmentSh(b)
        \/ WriteCustomBuilds(b)
        \/ _source_spack_magic_and_add_env(b)
        \/ Cmake(b)

SpecBuild == InitBuild /\ [][NextBuild]_vars

\* one build of the atdm-trilinos recipe, from its cmake step to the end of
\* its check step
RecipeInit ==
    /\ tmp_spack_magic = EmptyDir
    /\ module_env \in ModuleEnvs
    /\ \E e \in RecipeExecSpaces, g \in Generators :
          build = [b \in Builds |-> IF b = "b1" THEN NewBuild("start", e, g)
                                    ELSE NewBuild("idle", "serial", g)]

InitRecipe == CollectorIdle /\ RecipeInit /\ PackagesIdle

NextRecipe ==
    \E b \in Builds :
        \/ OpenEnvironmentSh(b)
        \/ WriteEnvironmentSh(b)
        \/ WriteCustomBuilds(b)
        \/ _source_spack_magic_and_add_env(b)
        \/ Cmake(b)
        \/ Build(b)
        \/ \E i \in 1..3 : Ctest(b, i)

SpecRecipe == InitRecipe /\ [][NextRecipe]_vars

\* the platform variables a build may find in os.environ
PlatformVars ==
    [n \in {"CRAY_CPU_TARGET", "CRAY_ACCEL_TARGET", "CRAY_BINUTILS_ROOT"} |->
        CASE n = "CRAY_CPU_TARGET" -> "x86-rome"
          [] n = "CRAY_ACCEL_TARGET" -> "amd-gfx908"
          [] OTHER -> "/opt/cray/pe/cce/binutils"]

\* BaseEnviron and the platform variables named in S
EnvironWith(S) ==
    [n \in DOMAIN BaseEnviron \cup S |->
        IF n \in DOMAIN BaseEnviron THEN BaseEnviron[n] ELSE PlatformVars[n]]

AccelTargets == {"none", "gfx908"}

\* self.targets_to_kokkos_map: the class does not define it, so a lookup
\* raises unless something outside the recipe supplies it
KokkosMaps ==
    {EmptyMap,
     [t \in {"x86-rome", "amd-gfx908"} |-> IF t = "x86-rome" THEN "ZEN2" ELSE "VEGA908"]}

\* one build generating its environment script, for each exec_space and
\* accel_target and each set of platform variables
GenerateInit ==
    /\ tmp_spack_magic = EmptyDir
    /\ module_env = <<>>
    /\ \E e \in RecipeExecSpaces, a \in AccelTargets, S \in SUBSET DOMAIN PlatformVars,
          k \in KokkosMaps :
          build = [b \in Builds |->
                      IF b = "b1"
                      THEN [NewBuild("start", e, "Ninja") EXCEPT
                               !.accel_target = a, !.environ = EnvironWith(S),
                               !.environ0 = EnvironWith(S), !.targets_to_kokkos_map = k]
                      ELSE NewBuild("idle", "serial", "Ninja")]

InitGenerate == CollectorIdle /\ GenerateInit /\ PackagesIdle

NextGenerate ==
    \E b \in Builds :
        \/ OpenEnvironmentSh(b)
        \/ WriteEnvironmentSh(b)
        \/ WriteCustomBuilds(b)

SpecGenerate == InitGenerate /\ [][NextGenerate]_vars

\* the script an earlier build of the serial variant left in /tmp/spack_magic
PreviousEnvironmentSh == File(_create_spack_atdm_env(NewBuild("checked", "serial", "Ninja")))

\* one build generating its environment script where an earlier build has
\* left one
RegenerateInit ==
    /\ tmp_spack_magic = [EmptyDir EXCEPT !["environment.sh"] = PreviousEnvironmentSh]
    /\ module_env = <<>>
    /\ \E e \in RecipeExecSpaces, a \in AccelTargets, S \in SUBSET DOMAIN PlatformVars,
          k \in KokkosMaps :
          build = [b \in Builds |->
                      IF b = "b1"
                      THEN [NewBuild("start", e, "Ninja") EXCEPT
                               !.accel_target = a, !.environ = EnvironWith(S),
                               !.environ0 = EnvironWith(S), !.targets_to_kokkos_map = k]
                      ELSE NewBuild("idle", "serial", "Ninja")]

InitRegenerate == CollectorIdle /\ RegenerateInit /\ PackagesIdle

SpecRegenerate == InitRegenerate /\ [][NextGenerate]_vars

\* the recipes evaluated on their own: the configuration of atdm-trilinos is
\* loaded, a cray-pe-targets spec is installed
PackagesInit == LoadInit /\ CrayInit /\ MergeIdle

InitPackages == CollectorIdle /\ BuildIdle /\ PackagesInit

NextPackages ==
    \/ LoadConfig
    \/ DeclareTplVariants
    \/ CrayPeTargetsConcretize
    \/ CrayPeTargetsInstall

SpecPackages == InitPackages /\ [][NextPackages]_vars

\* the merge of a policy and a platform dictionary
InitMerge == CollectorIdle /\ BuildIdle /\ LoadIdle /\ MergeInit

NextMerge == RecursiveUpdate

SpecMerge == InitMerge /\ [][NextMerge]_vars

(***************************************************************************)
(* Properties of the collector.                                            *)
(***************************************************************************)
IsGather == call.op = "_gather_core_tpl_libraries"
IsFind == call.op = "_find_libraries"
Tpls == Range(call.core_tpls)

\* the entry holds one of the denylisted substrings
Denylisted(l, blacklist_static) ==
    \E b \in 1..Len(blacklist_static) : Contains(l, blacklist_static[b])

\* denylist rewriting triggers for the tpl: static linkage, and a collected
\* library holds a denylisted substring
RewriteTriggers(tpl) ==
    /\ ~call.shared
    /\ \E i \in 1..Len(call.found[tpl].libs) :
          Denylisted(call.found[tpl].libs[i], call.blacklist_static)

\* s is a subsequence of t
RECURSIVE IsSubsequence(_, _)
IsSubsequence(s, t) ==
    IF s = <<>> THEN TRUE
    ELSE IF t = <<>> THEN FALSE
    ELSE IF Head(s) = Head(t) THEN IsSubsequence(Tail(s), Tail(t))
    ELSE IsSubsequence(s, Tail(t))

\* the collected libraries of the tpl that hold no denylisted substring
NonMatching(tpl) ==
    LET keep(l) == ~Denylisted(l, call.blacklist_static)
    IN SelectSeq(dict_fromkeys(call.found[tpl].libs), keep)

\* C1: when denylist rewriting triggers for a TPL, the collected libraries
\* that hold no denylisted substring still appear, in their original
\* relative order, in the TPL's output library list.
C1_NonMatchingPassedThrough ==
    IsGather =>
        \A tpl \in Tpls :
            RewriteTriggers(tpl) => IsSubsequence(NonMatching(tpl), call.out[tpl].libs)

\* the list is wrapped in the start-group / end-group directives
Wrapped(libs) ==
    Len(libs) >= 2 /\ libs[1] = StartGroup /\ libs[Len(libs)] = EndGroup

Inner(libs) == SubSeq(libs, 2, Len(libs) - 1)

\* the entries of a list that are libraries, not group directives
Libraries(libs) ==
    LET islib(l) == l # StartGroup /\ l # EndGroup
    IN SelectSeq(libs, islib)

\* C2: the output library list of a TPL is wrapped in the group directives
\* exactly when grouping was requested and more than one library was
\* collected, and a wrapped output never holds a single library.
C2_WrappedIffRequestedAndSeveral ==
    IsGather =>
        \A tpl \in Tpls :
            /\ Wrapped(call.out[tpl].libs)
                  <=> (call.wrap_groups /\ Len(call.found[tpl].libs) > 1)
            /\ Len(Libraries(call.out[tpl].libs)) = 1 => ~Wrapped(call.out[tpl].libs)

\* the library names the call resolves for its top-level dependency
TopLibNames(dep_name) ==
    IF dep_name \in DOMAIN call.override_libnames_map
    THEN call.override_libnames_map[dep_name]
    ELSE LibsNames(SpecLookup(IF dep_name \in DOMAIN call.query_map
                              THEN call.query_map[dep_name] ELSE dep_name))

\* C3: for a dependency that reports zero library names, _find_libraries
\* returns three empty collections.
C3_ZeroNamesAllEmpty ==
    IsFind =>
        \A dep_name \in Tpls :
            (~LibsRaises(SpecLookup(dep_name)) /\ TopLibNames(dep_name) = <<>>)
                => call.out[dep_name] = NoResult

\* the packages reached from a set of packages in at most n dependency steps
RECURSIVE ReachFrom(_, _)
ReachFrom(S, n) ==
    IF n = 0 THEN S
    ELSE ReachFrom(S \cup UNION {Range(spec_deps[p]) : p \in S}, n - 1)

Reachable(dep_name) == ReachFrom({dep_name}, Len(Packages))

\* the library names package p is resolved with in the call for dep_name:
\* the top-level dependency with the call's maps, a transitive one with its
\* plain `libs` query
NamesOf(p, dep_name) ==
    IF p = dep_name THEN TopLibNames(dep_name) ELSE LibsNames(SpecLookup(p))

\* p's library query answers with at least one library name
ReportsLibs(p, dep_name) ==
    ~LibsRaises(SpecLookup(p)) /\ NamesOf(p, dep_name) # <<>>

\* the packages reached from dep_name along dependency chains on which every
\* package before the last reports at least one library name
RECURSIVE CoveredFrom(_, _, _)
CoveredFrom(S, dep_name, n) ==
    IF n = 0 THEN S
    ELSE CoveredFrom(
            S \cup UNION {Range(spec_deps[p]) : p \in {q \in S : ReportsLibs(q, dep_name)}},
            dep_name, n - 1)

Covered(dep_name) == CoveredFrom({dep_name}, dep_name, Len(Packages))

\* the library files of p that the search of the call finds
FoundLibsOf(p, dep_name) ==
    LET names == NamesOf(p, dep_name)
    IN Range(find_libraries([i \in 1..Len(names) |-> "lib" \o names[i]],
                            SpecLookup(p), call.shared))

\* the result of the call holds p's libraries and directories
Holds(p, dep_name) ==
    /\ FoundLibsOf(p, dep_name) \subseteq Range(call.out[dep_name].libs)
    /\ PrefixInclude(SpecLookup(p)) \in Range(call.out[dep_name].inc_dirs)
    /\ PrefixLib(SpecLookup(p)) \in Range(call.out[dep_name].lib_dirs)

\* C4, as claimed: _find_libraries(D) holds the found libraries, the include
\* directory and the library directory of every package reachable from D.
C4_CoversAllReachable ==
    IsFind =>
        \A dep_name \in Tpls : \A p \in Reachable(dep_name) : Holds(p, dep_name)

\* C4, amended: _find_libraries(D) holds the found libraries, the include
\* directory and the library directory of every package whose library query
\* does not raise and that is reached from D along a dependency chain on which
\* every package before it reports at least one library name.
C4_CoversReachableThroughLibs ==
    IsFind =>
        \A dep_name \in Tpls : \A p \in Covered(dep_name) :
            ~LibsRaises(SpecLookup(p)) => Holds(p, dep_name)

\* a call whose result holds the library of a package two dependency steps
\* below the named dependency, and of no direct dependency
C4_Witness ==
    /\ IsFind
    /\ \E dep_name \in Tpls : \E p \in Covered(dep_name) :
          /\ p # dep_name
          /\ p \notin Range(spec_deps[dep_name])
          /\ FoundLibsOf(p, dep_name) # {}
          /\ Holds(p, dep_name)

\* the collected entry is a static archive lib<name>.a that holds a
\* denylisted substring
MatchingArchive(l) ==
    Denylisted(l, call.blacklist_static) /\ LibRegexMatches(PathName(l))

\* C5: when denylist rewriting triggers for a TPL, every matching static
\* archive is output as '-l<name>', the '-L<dir>' flags of the TPL's library
\* directories are in the same list, and the archive's path is not; in the
\* atdm-trilinos copy and in the netcdf-c copy.
C5_RewrittenToDynamicFlags ==
    IsGather =>
        \A tpl \in Tpls :
            RewriteTriggers(tpl) =>
                \A i \in 1..Len(call.found[tpl].libs) :
                    LET l == call.found[tpl].libs[i]
                        out == call.out[tpl]
                    IN MatchingArchive(l) =>
                        /\ ("-l" \o LibRegexName(PathName(l))) \in Range(out.libs)
                        /\ \A d \in Range(out.lib_dirs) : ("-L" \o d) \in Range(out.libs)
                        /\ l \notin Range(out.libs)

\* the position of the first occurrence of x in s
FirstPos(s, x) == CHOOSE i \in 1..Len(s) : s[i] = x /\ \A j \in 1..(i - 1) : s[j] # x

\* out is the deduplication of collected that keeps first-seen order
DedupFirstSeen(out, collected) ==
    /\ NoRepeats(out)
    /\ Range(out) = Range(collected)
    /\ \A i, j \in 1..Len(out) :
          i < j => FirstPos(collected, out[i]) < FirstPos(collected, out[j])

\* C9: for every TPL the returned include-directory list and
\* library-directory list hold no repeated entry, hold exactly the directories
\* _find_libraries collected, and keep them in first-seen order.
C9_DirsDedupFirstSeen ==
    IsGather =>
        \A tpl \in Tpls :
            /\ DedupFirstSeen(call.out[tpl].inc_dirs, call.found[tpl].inc_dirs)
            /\ DedupFirstSeen(call.out[tpl].lib_dirs, call.found[tpl].lib_dirs)

\* a TPL whose collected directories repeat an entry after a different one
C9_Witness ==
    /\ IsGather
    /\ \E tpl \in Tpls :
          LET c == call.found[tpl].lib_dirs
          IN /\ \E i, j, k \in 1..Len(c) : i < j /\ j < k /\ c[i] = c[k] /\ c[i] # c[j]
             /\ Len(call.out[tpl].lib_dirs) < Len(c)
             /\ Len(call.out[tpl].inc_dirs) < Len(call.found[tpl].inc_dirs)

\* C10: a library list that is wrapped in the group directives holds no
\* library twice.
C10_GroupedHasNoDuplicates ==
    IsGather =>
        \A tpl \in Tpls :
            Wrapped(call.out[tpl].libs) => NoRepeats(Inner(call.out[tpl].libs))

\* a wrapped output whose collected libraries held a duplicate
C10_Witness ==
    /\ IsGather
    /\ \E tpl \in Tpls :
          /\ Wrapped(call.out[tpl].libs)
          /\ ~NoRepeats(call.found[tpl].libs)
          /\ Len(Inner(call.out[tpl].libs)) >= 2

(***************************************************************************)
(* Properties of the cmake step.                                           *)
(***************************************************************************)
HasSourced(b) == build[b].sourced.done
OwnScript(b) == _create_spack_atdm_env(build[b])
DifferentVariants == \A b1, b2 \in Builds : b1 # b2 => build[b1].exec_space # build[b2].exec_space

\* C6: when two builds with different variant selections run at the same
\* time, the script a build has sourced and imported is exactly the script
\* its own invocation generated.
C6_SourcesOwnScript ==
    DifferentVariants =>
        \A b \in Builds : HasSourced(b) => build[b].sourced.script = OwnScript(b)

\* the allow-patterns: the prefix ATDM_, the listed compiler-wrapper names,
\* the suffix _ROOT
AllowedName(n) ==
    \/ StartsWith(n, "ATDM_")
    \/ n \in {"MPICC", "MPICXX", "MPI90", "MPICH_CXX", "OMPI_CXX"}
    \/ EndsWith(n, "_ROOT")

\* the entry of a name in a dictionary, <<>> when it has none
Entry(d, n) == IF n \in DOMAIN d THEN <<d[n]>> ELSE <<>>

C8_WrappersImported ==
    \A b \in Builds :
        (build[b].pc = "cmake_done" /\ build[b].sourced.script = OwnScript(b)) =>
            \A n \in {"MPICC", "MPICXX", "MPIF90"} :
                Entry(build[b].environ, n) = Entry(build[b].sourced.env, n)

(***************************************************************************)
(* Properties of the collector's failure handling.                         *)
(***************************************************************************)
\* the result of the call holds nothing that lies under p's prefix
HoldsNothingOf(p, dep_name) ==
    LET under(l) == StartsWith(l, Prefix(SpecLookup(p)) \o "/")
        r == call.out[dep_name]
    IN /\ \A i \in 1..Len(r.libs) : ~under(r.libs[i])
       /\ \A i \in 1..Len(r.inc_dirs) : ~under(r.inc_dirs[i])
       /\ \A i \in 1..Len(r.lib_dirs) : ~under(r.lib_dirs[i])

\* C11: a library query that raises NoLibrariesError is not fatal to
\* _find_libraries: the call for a raising dependency returns three empty
\* collections, a raising package contributes nothing to any result, and a
\* parent call still collects from the dependencies that come after a raising
\* one.
C11_RaiseReturnsEmptyAndParentContinues ==
    IsFind =>
        \A dep_name \in Tpls :
            /\ LibsRaises(SpecLookup(dep_name)) =>
                  call.out[dep_name] = [libs |-> <<>>, inc_dirs |-> <<>>, lib_dirs |-> <<>>]
            /\ \A p \in PkgSet : LibsRaises(SpecLookup(p)) => HoldsNothingOf(p, dep_name)
            /\ ReportsLibs(dep_name, dep_name) =>
                  LET deps == spec_deps[dep_name]
                  IN \A i, j \in 1..Len(deps) :
                        (i < j /\ LibsRaises(SpecLookup(deps[i]))
                               /\ ~LibsRaises(SpecLookup(deps[j])))
                            => Holds(deps[j], dep_name)

\* a call whose first dependency raises and whose second dependency's
\* library is in the result
C11_Witness ==
    /\ IsFind
    /\ \E dep_name \in Tpls :
          /\ ReportsLibs(dep_name, dep_name)
          /\ Len(spec_deps[dep_name]) = 2
          /\ LibsRaises(SpecLookup(spec_deps[dep_name][1]))
          /\ FoundLibsOf(spec_deps[dep_name][2], dep_name) # {}
          /\ Holds(spec_deps[dep_name][2], dep_name)
          /\ HoldsNothingOf(spec_deps[dep_name][1], dep_name)

(***************************************************************************)
(* Properties of the order of the recipe's steps.                          *)
(***************************************************************************)
StepNames(b) == [i \in 1..Len(build[b].steps) |-> build[b].steps[i].name]
\* the first n steps of a build, all of them when it has run fewer
FirstSteps(b, n) ==
    SubSeq(StepNames(b), 1, IF Len(build[b].steps) < n THEN Len(build[b].steps) ELSE n)
IsPrefix(s, t) == Len(s) <= Len(t) /\ s = SubSeq(t, 1, Len(s))
HasRun(b, name) == \E i \in 1..Len(build[b].steps) : build[b].steps[i].name = name
StepIndex(b, name) == CHOOSE i \in 1..Len(build[b].steps) : build[b].steps[i].name = name

CmakeStepOrder ==
    <<"open environment.sh", "write environment.sh", "write custom_builds.sh",
      "source environment.sh", "cmake">>

\* C12: in the cmake step of a build the steps run one after another:
\* environment.sh and custom_builds.sh have been written to their end by the
\* build before its sourcing subprocess runs, and sourcing and importing
\* have ended before its native CMake invocation runs.
C12_CmakeStepsInOrder ==
    \A b \in Builds :
        /\ IsPrefix(FirstSteps(b, Len(CmakeStepOrder)), CmakeStepOrder)
        /\ HasRun(b, "source environment.sh") =>
              /\ HasRun(b, "write environment.sh")
              /\ HasRun(b, "write custom_builds.sh")
              /\ StepIndex(b, "write environment.sh") < StepIndex(b, "source environment.sh")
              /\ StepIndex(b, "write custom_builds.sh") < StepIndex(b, "source environment.sh")
        /\ HasRun(b, "cmake") =>
              /\ HasRun(b, "source environment.sh")
              /\ build[b].sourced.done
              /\ StepIndex(b, "source environment.sh") < StepIndex(b, "cmake")

\* a build has run the whole cmake step
C12_Witness ==
    \E b \in Builds : HasRun(b, "cmake") /\ StepNames(b) = CmakeStepOrder

\* the steps of a build that ran the tool `name`, in order
RECURSIVE RunsOfIn(_, _)
RunsOfIn(steps, names) ==
    IF steps = <<>> THEN <<>>
    ELSE (IF Head(steps).name \in names THEN <<Head(steps)>> ELSE <<>>)
         \o RunsOfIn(Tail(steps), names)

CtestRuns(b) == RunsOfIn(build[b].steps, {"ctest"})
BuildRuns(b) == RunsOfIn(build[b].steps, {"make", "ninja"})
Ended(b) == build[b].pc \in {"aborted", "checked"}
LastStep(b) == build[b].steps[Len(build[b].steps)]

\* the three test runs: all tests with 8 jobs, the failed ones again with 4
\* jobs, the failed ones again verbosely with 1 job
ExpectedCtestRuns ==
    << <<"-j 8", "--test-timeout 300", "--timeout 300">>,
       <<"--rerun-failed", "-j 4", "--test-timeout 300", "--timeout 300">>,
       <<"-VV", "--rerun-failed", "-j 1", "--test-timeout 300", "--timeout 300">> >>

\* C13: check runs ctest three times in the fixed order; whatever the first
\* and the second run exit with, the recipe goes on and runs the third; the
\* recipe fails in check exactly when the third run exits with non-zero.
C13_ThreeTestRunsLastOneDecides ==
    \A b \in Builds :
        LET runs == CtestRuns(b)
        IN /\ Len(runs) <= 3
           /\ \A i \in 1..Len(runs) : runs[i].opts = ExpectedCtestRuns[i]
           /\ (Len(runs) \in {1, 2}) => ~Ended(b) /\ build[b].status = "running"
           /\ Ended(b) => Len(runs) = 3
           /\ Len(runs) = 3 =>
                 /\ Ended(b)
                 /\ (build[b].status = "failed") = (runs[3].rc # 0)
                 /\ (build[b].status = "checked") = (runs[3].rc = 0)

\* the first and the second test run failed, the third ran and passed, and
\* the recipe has not failed
C13_Witness ==
    \E b \in Builds :
        /\ Len(CtestRuns(b)) = 3
        /\ CtestRuns(b)[1].rc # 0
        /\ CtestRuns(b)[2].rc # 0
        /\ CtestRuns(b)[3].rc = 0
        /\ build[b].status = "checked"

RECURSIVE ExportsOf(_, _)
ExportsOf(script, name) ==
    IF script = <<>> THEN <<>>
    ELSE (IF Head(script).op = "export" /\ Head(script).name = name
          THEN <<Head(script).value>> ELSE <<>>)
         \o ExportsOf(Tail(script), name)

\* the build has written environment.sh to its end
HasGenerated(b) == HasRun(b, "write environment.sh")

\* C15: the generated script exports ATDM_CONFIG_USE_OPENMP, _USE_CUDA and
\* _USE_HIP once each, ON exactly when exec_space is openmp, cuda and hip
\* respectively and OFF otherwise, so that at most one of them is ON.
C15_ExecSpaceToggles ==
    \A b \in Builds : HasGenerated(b) =>
        LET script == tmp_spack_magic["environment.sh"].text
            toggle(name, space) ==
                ExportsOf(script, name) =
                    <<IF build[b].exec_space = space THEN "ON" ELSE "OFF">>
        IN /\ toggle("ATDM_CONFIG_USE_OPENMP", "openmp")
           /\ toggle("ATDM_CONFIG_USE_CUDA", "cuda")
           /\ toggle("ATDM_CONFIG_USE_HIP", "hip")
           /\ Cardinality({n \in {"ATDM_CONFIG_USE_OPENMP", "ATDM_CONFIG_USE_CUDA",
                                  "ATDM_CONFIG_USE_HIP"} :
                              ExportsOf(script, n) = <<"ON">>}) <= 1

\* a build with exec_space=openmp has generated a script with
\* ATDM_CONFIG_USE_OPENMP=ON and ATDM_CONFIG_USE_CUDA=OFF
C15_Witness ==
    \E b \in Builds :
        /\ HasGenerated(b)
        /\ build[b].exec_space = "openmp"
        /\ ExportsOf(tmp_spack_magic["environment.sh"].text, "ATDM_CONFIG_USE_OPENMP") = <<"ON">>
        /\ ExportsOf(tmp_spack_magic["environment.sh"].text, "ATDM_CONFIG_USE_CUDA") = <<"OFF">>

\* the build has left _create_spack_atdm_env, by return, exit or exception
GenerationOver(b) == build[b].pc \notin {"idle", "start", "env_open"}
IsSet(b, name) == name \in DOMAIN build[b].environ0
\* the lookup of the platform variable in targets_to_kokkos_map succeeds
LooksUp(b, name) == build[b].environ0[name] \in DOMAIN build[b].targets_to_kokkos_map
\* the generation came as far as the test of the accelerator target
CpuArchResolved(b) == ~IsSet(b, "CRAY_CPU_TARGET") \/ LooksUp(b, "CRAY_CPU_TARGET")
AccelArchResolved(b) ==
    build[b].accel_target = "none"
        \/ (IsSet(b, "CRAY_ACCEL_TARGET") /\ LooksUp(b, "CRAY_ACCEL_TARGET"))
GeneratedScript == tmp_spack_magic["environment.sh"].text

\* C16: during generation, a missing CRAY_ACCEL_TARGET with accel_target
\* other than 'none' ends the process with nothing written; a missing
\* CRAY_CPU_TARGET makes the generation go on with the architecture of the
\* spec target; a missing CRAY_BINUTILS_ROOT makes it go on with an empty
\* BINUTILS_ROOT.
C16_MissingPlatformVariables ==
    \A b \in Builds : GenerationOver(b) =>
        /\ (build[b].accel_target # "none" /\ ~IsSet(b, "CRAY_ACCEL_TARGET")
                /\ CpuArchResolved(b)) =>
              /\ build[b].status = "exited"
              /\ build[b].pc = "aborted"
              /\ GeneratedScript = <<>>
        /\ (~IsSet(b, "CRAY_CPU_TARGET") /\ AccelArchResolved(b)) =>
              /\ build[b].status = "running"
              /\ HasGenerated(b)
              /\ ExportsOf(GeneratedScript, "ATDM_CONFIG_KOKKOS_ARCH") # <<>>
              /\ StartsWith(ExportsOf(GeneratedScript, "ATDM_CONFIG_KOKKOS_ARCH")[1], "ZEN2")
        /\ (~IsSet(b, "CRAY_BINUTILS_ROOT") /\ CpuArchResolved(b) /\ AccelArchResolved(b)) =>
              /\ build[b].status = "running"
              /\ HasGenerated(b)
              /\ ExportsOf(GeneratedScript, "BINUTILS_ROOT") = <<"">>

\* a build with an accelerator target and none of the three platform
\* variables set: the CPU architecture fell back, and the process has exited
C16_Witness ==
    \E b \in Builds :
        /\ GenerationOver(b)
        /\ build[b].accel_target # "none"
        /\ ~IsSet(b, "CRAY_ACCEL_TARGET")
        /\ ~IsSet(b, "CRAY_CPU_TARGET")
        /\ ~IsSet(b, "CRAY_BINUTILS_ROOT")
        /\ build[b].status = "exited"

\* a build without an accelerator target and without CRAY_CPU_TARGET and
\* CRAY_BINUTILS_ROOT has generated its script
C16_WitnessFallback ==
    \E b \in Builds :
        /\ HasGenerated(b)
        /\ ~IsSet(b, "CRAY_CPU_TARGET")
        /\ ~IsSet(b, "CRAY_BINUTILS_ROOT")
        /\ ExportsOf(GeneratedScript, "ATDM_CONFIG_KOKKOS_ARCH") = <<"ZEN2">>
        /\ ExportsOf(GeneratedScript, "BINUTILS_ROOT") = <<"">>

(***************************************************************************)
(* Properties of the configuration loader.                                 *)
(***************************************************************************)
Loaded == load.pc = "done"

\* C17: when the policy file or the platform file cannot be read, the
\* evaluation ends at once with the diagnostic "Error reading <file>" for the
\* first unreadable file, and _atdmtrilinos_load_config returns no
\* configuration.
C17_UnreadableFileIsFatal ==
    Loaded =>
        /\ ~load.files.policy.readable =>
              /\ load.end = "died"
              /\ load.diagnostic = "Error reading policy.yaml"
              /\ load.config = <<>>
        /\ (load.files.policy.readable /\ ~load.files.platform.readable) =>
              /\ load.end = "died"
              /\ load.diagnostic = "Error reading platform/redwood.yaml"
              /\ load.config = <<>>
        /\ load.end = "returned" =>
              load.files.policy.readable /\ load.files.platform.readable

\* the policy file was read, the platform file could not be, and the
\* evaluation has died
C17_Witness ==
    /\ Loaded
    /\ load.files.policy.readable
    /\ ~load.files.platform.readable
    /\ load.end = "died"
    /\ load.diagnostic = "Error reading platform/redwood.yaml"

(***************************************************************************)
(* Properties of the compiler configuration name.                          *)
(***************************************************************************)
\* {compiler_name}-{compiler_version}_{mpi_name}-{mpi_version}
DocumentedNameStem ==
    _get_compiler_name_version[1] \o "-" \o _get_compiler_name_version[2] \o "_"
        \o _get_true_name_version("mpi")[1] \o "-" \o _get_true_name_version("mpi")[2]

\* C18: the ATDM_CONFIG_COMPILER written to custom_builds.sh has the form
\* {compiler_name}-{compiler_version}_{mpi_name}-{mpi_version}[-{more}...]
\* for every exec_space: it starts with the compiler and the MPI part, and
\* what follows is empty or begins with '-'.
C18_CompilerConfigNameForm ==
    \A b \in Builds : HasRun(b, "write custom_builds.sh") =>
        LET written == ExportsOf(tmp_spack_magic["custom_builds.sh"].text, "ATDM_CONFIG_COMPILER")
            name == written[1]
            more == SubSeq(name, Len(DocumentedNameStem) + 1, Len(name))
        IN /\ Len(written) = 1
           /\ StartsWith(name, DocumentedNameStem)
           /\ more = "" \/ StartsWith(more, "-")

(***************************************************************************)
(* Properties of the cray-pe-targets recipe.                               *)
(***************************************************************************)
InstallRan == cray.pc \notin {"idle", "start"}

\* C19: cray-pe-targets is never installable: for every version and every
\* value of craype-host and craype-accel, install raises InstallError and
\* leaves the prefix as it found it, empty.
C19_NeverInstallable ==
    InstallRan =>
        /\ cray.pc = "failed"
        /\ cray.raised = "InstallError"
        /\ StartsWith(cray.message, "cray-pe-targets is not installable")
        /\ cray.prefix = {}

\* install has run for a spec without accelerator and has raised
C19_Witness ==
    /\ InstallRan
    /\ cray.spec.accel = "none"
    /\ cray.spec.host = "rome"
    /\ cray.raised = "InstallError"

\* the entry of a virtual package in the 'tpls' mapping of a configuration
VirtualEntry(config, vpkg) ==
    LET tpls == DictGet(config, "tpls").m
    IN IF DictHas(tpls, vpkg) THEN DictGet(tpls, vpkg).m ELSE <<>>

AllScalars(d) == \A i \in 1..Len(d) : d[i].val.kind = "scalar"
AllMappings(d) == \A i \in 1..Len(d) : d[i].val.kind = "map"

\* every value of d is non-mapping and d carries _disable_variant = True
ShapeDisabled(d) ==
    /\ AllScalars(d)
    /\ DictHas(d, "_disable_variant")
    /\ DictGet(d, "_disable_variant") = Scalar("True")

\* every value of d is a provider mapping that holds each non-mapping item
\* of `before`, and none of those keys is left in d itself
ShapeProviders(d, before) ==
    /\ AllMappings(d)
    /\ \A i \in 1..Len(before) :
          before[i].val.kind = "scalar" =>
              /\ ~DictHas(d, before[i].k)
              /\ \A j \in 1..Len(d) :
                    /\ DictHas(d[j].val.m, before[i].k)
                    /\ DictGet(d[j].val.m, before[i].k) = before[i].val

\* C20: in the configuration _atdmtrilinos_load_config returns, the entry of
\* mpi, lapack and blas, when not empty, has exactly one of two shapes: only
\* non-mapping values with _disable_variant = True, or only provider
\* mappings, each holding every top-level non-mapping key and value the
\* entry had after the merge, with none of those keys left at the top.
C20_VirtualPackageShapes ==
    (Loaded /\ load.end = "returned") =>
        \A i \in 1..Len(virtual_packages) :
            LET d == VirtualEntry(load.config, virtual_packages[i])
                before == VirtualEntry(load.merged, virtual_packages[i])
            IN /\ (before = <<>>) = (d = <<>>)
               /\ d # <<>> =>
                     /\ ShapeDisabled(d) \/ ShapeProviders(d, before)
                     /\ ~(ShapeDisabled(d) /\ ShapeProviders(d, before))

\* a configuration was returned in which mpi has provider mappings that
\* were given a top-level value, and lapack has none and is disabled
C20_Witness ==
    /\ Loaded
    /\ load.end = "returned"
    /\ LET mpi == VirtualEntry(load.config, "mpi")
           before == VirtualEntry(load.merged, "mpi")
       IN /\ Len(mpi) = 2
          /\ ShapeProviders(mpi, before)
          /\ \E i \in 1..Len(before) : before[i].val.kind = "scalar"
    /\ ShapeDisabled(VirtualEntry(load.config, "lapack"))

\* the merge was done: both files were read
Merged == Loaded /\ load.merged # <<>>

\* the provider mappings of d that have the top-level non-mapping key of d
\* at position j, as pairs <<provider position, j>>
DuplicateKeys(d) ==
    {<<i, j>> \in (1..Len(d)) \X (1..Len(d)) :
        /\ d[i].val.kind = "map"
        /\ d[j].val.kind = "scalar"
        /\ DictHas(d[i].val.m, d[j].k)}

HasDuplicateKey(vpkg) == DuplicateKeys(VirtualEntry(load.merged, vpkg)) # {}

DuplicateKeyDiagnostics(vpkg) ==
    LET d == VirtualEntry(load.merged, vpkg)
    IN {"Found duplicate key in top-level virtual package " \o vpkg \o " and spec "
           \o d[c[1]].k \o ". Key=" \o d[c[2]].k : c \in DuplicateKeys(d)}

\* C21: when a top-level non-mapping key of mpi, lapack or blas is also a
\* key of one of its provider mappings, _atdmtrilinos_load_config returns
\* no configuration: it dies with the 'duplicate key' diagnostic that names
\* such a virtual package, provider and key.  A configuration it does
\* return keeps every value the providers had of their own.
C21_DuplicateKeyIsFatal ==
    Merged =>
        /\ (\E i \in 1..Len(virtual_packages) : HasDuplicateKey(virtual_packages[i])) =>
              /\ load.end = "died"
              /\ load.config = <<>>
              /\ \E i \in 1..Len(virtual_packages) :
                    load.diagnostic \in DuplicateKeyDiagnostics(virtual_packages[i])
        /\ load.end = "returned" =>
              \A i \in 1..Len(virtual_packages) :
                  LET before == VirtualEntry(load.merged, virtual_packages[i])
                      d == VirtualEntry(load.config, virtual_packages[i])
                  IN \A j \in 1..Len(before) :
                        before[j].val.kind = "map" =>
                            /\ DictHas(d, before[j].k)
                            /\ \A n \in 1..Len(before[j].val.m) :
                                  LET own == before[j].val.m[n]
                                  IN /\ DictHas(DictGet(d, before[j].k).m, own.k)
                                     /\ DictGet(DictGet(d, before[j].k).m, own.k) = own.val

\* the load died on lapack's duplicate key after mpi, which has providers
\* and a top-level value of its own, was massaged
C21_Witness ==
    /\ Merged
    /\ load.end = "died"
    /\ ~HasDuplicateKey("mpi")
    /\ \E j \in 1..Len(VirtualEntry(load.merged, "mpi")) :
          VirtualEntry(load.merged, "mpi")[j].val.kind = "map"
    /\ \E j \in 1..Len(VirtualEntry(load.merged, "mpi")) :
          VirtualEntry(load.merged, "mpi")[j].val.kind = "scalar"
    /\ HasDuplicateKey("lapack")
    /\ load.diagnostic
          = "Found duplicate key in top-level virtual package lapack and spec cray. Key=libs"

\* the merge returned
MergeReturned == merge.pc = "done" /\ ~merge.raised

\* wherever u has a mapping, d has a mapping or nothing
RECURSIVE MergeTyped(_, _)
MergeTyped(d, u) ==
    \A i \in 1..Len(u) :
        (u[i].val.kind = "map" /\ DictHas(d, u[i].k)) =>
            /\ DictGet(d, u[i].k).kind = "map"
            /\ MergeTyped(DictGet(d, u[i].k).m, u[i].val.m)

\* the text t holds a and then b
HoldsInOrder(t, a, b) ==
    \E i \in 1..(Len(t) - Len(a) + 1) : \E j \in (i + Len(a))..(Len(t) - Len(b) + 1) :
        /\ SubSeq(t, i, i + Len(a) - 1) = a
        /\ SubSeq(t, j, j + Len(b) - 1) = b

\* r is the merge of u into d
RECURSIVE IsMergeOf(_, _, _)
IsMergeOf(r, d, u) ==
    /\ \A i \in 1..Len(r) : DictHas(d, r[i].k) \/ DictHas(u, r[i].k)
    /\ \A i \in 1..Len(d) :
          ~DictHas(u, d[i].k) => (DictHas(r, d[i].k) /\ DictGet(r, d[i].k) = d[i].val)
    /\ \A i \in 1..Len(u) :
          LET k == u[i].k
              v == u[i].val
              old == IF DictHas(d, k) THEN DictGet(d, k) ELSE Mapping(<<>>)
          IN /\ DictHas(r, k)
             /\ (v.kind = "map" /\ old.kind = "map") =>
                   /\ DictGet(r, k).kind = "map"
                   /\ IsMergeOf(DictGet(r, k).m, old.m, v.m)
             /\ (v.kind = "scalar" /\ (k # "note" \/ ~DictHas(d, k))) => DictGet(r, k) = v
             /\ (v.kind = "scalar" /\ k = "note" /\ DictHas(d, k)) =>
                   /\ DictGet(r, k).kind = "scalar"
                   /\ HoldsInOrder(DictGet(r, k).v, DictGet(d, k).v, v.v)

\* C22: _atdmtrilinos_recursive_update(d, u) returns for every policy
\* mapping d and platform mapping u that have mappings at the same keys, and
\* what it returns has the keys of d and u and no other: a key of d absent
\* from u keeps its value, a key whose value in u is a mapping holds the
\* merge of that mapping into d's mapping for the key, any other key holds
\* u's value, except 'note' present in both, which holds the policy note
\* followed by the platform note.
C22_RecursiveUpdateMerges ==
    /\ (merge.pc = "done" /\ MergeTyped(merge.d, merge.u)) => ~merge.raised
    /\ MergeReturned => IsMergeOf(merge.result, merge.d, merge.u)

\* a merge of two notes at the top and two in a provider mapping, next to a
\* key only the policy has
C22_Witness ==
    /\ MergeReturned
    /\ DictHas(merge.d, "note") /\ DictHas(merge.u, "note")
    /\ DictHas(merge.d, "libs") /\ ~DictHas(merge.u, "libs")
    /\ DictHas(merge.d, "cray") /\ DictHas(merge.u, "cray")
    /\ DictGet(merge.d, "cray").kind = "map" /\ DictGet(merge.u, "cray").kind = "map"
    /\ DictHas(DictGet(merge.d, "cray").m, "note")
    /\ DictHas(DictGet(merge.u, "cray").m, "note")
    /\ DictHas(DictGet(merge.u, "cray").m, "libs")
    /\ ~DictHas(DictGet(merge.d, "cray").m, "libs")

IsConfigure == call.op = "configure_args"

\* seq holds part as a run of consecutive entries
HoldsRun(seq, part) ==
    \E i \in 0..(Len(seq) - Len(part)) : SubSeq(seq, i + 1, i + Len(part)) = part

\* what the collector answers for hdf5: static collection, grouping
\* requested, denylist 'sci_cray'
CollectedForHdf5 ==
    NetcdfC_gather_core_tpl_libraries(<<"hdf5">>, [n \in {"hdf5"} |-> "hdf5:hl,fortran"],
                                      EmptyMap, <<"sci_cray">>, FALSE, <<>>, TRUE)["hdf5"]

\* C23: configured against a static hdf5, NetcdfC.configure_args calls the
\* collector once, for hdf5, static, with grouping and the denylist
\* 'sci_cray'; LIBS holds the list the collector returned and LDFLAGS one
\* -L<dir> for each directory it returned followed by
\* -Wl,--allow-multiple-definition.  Configured against a shared hdf5 it
\* does not call the collector, LIBS holds nothing of hdf5 and LDFLAGS holds
\* the search flags of hdf5's own libraries; it raises only there, when
\* hdf5 has no libraries to ask for.
C23_Hdf5LinkFlags ==
    IsConfigure =>
        IF ~call.hdf5_shared
        THEN /\ ~call.raised
             /\ Len(call.gather) = 1
             /\ call.gather[1].core_tpls = <<"hdf5">>
             /\ ~call.gather[1].shared
             /\ call.gather[1].wrap_groups
             /\ call.gather[1].blacklist_static = <<"sci_cray">>
             /\ call.out["hdf5"] = CollectedForHdf5
             /\ HoldsRun(call.libs, CollectedForHdf5.libs)
             /\ HoldsRun(call.ldflags,
                         [i \in 1..Len(CollectedForHdf5.lib_dirs) |->
                             "-L" \o CollectedForHdf5.lib_dirs[i]]
                         \o <<"-Wl,--allow-multiple-definition">>)
             /\ call.config_args = <<"LDFLAGS=" \o JoinWs(call.ldflags),
                                     "LIBS=" \o JoinWs(call.libs)>>
        ELSE /\ call.gather = <<>>
             /\ call.raised = (spec_install["hdf5"] = "raise")
             /\ ~call.raised =>
                   /\ \A i \in 1..Len(call.libs) : ~Contains(call.libs[i], "hdf5")
                   /\ "-Wl,--allow-multiple-definition" \notin Range(call.ldflags)
                   /\ HoldsRun(call.ldflags,
                               <<IF spec_install["hdf5"] = "shared" THEN "-L/opt/hdf5/lib" ELSE "">>)
                   /\ call.config_args = <<"LDFLAGS=" \o JoinWs(call.ldflags),
                                           "LIBS=" \o JoinWs(call.libs)>>

\* configured against a static hdf5 with libraries of its own and of a
\* dependency, next to the flags of curl and hdf4
C23_Witness ==
    /\ IsConfigure
    /\ ~call.hdf5_shared
    /\ {"dap", "hdf4"} \subseteq call.variants
    /\ Len(CollectedForHdf5.libs) >= 4
    /\ Len(CollectedForHdf5.lib_dirs) >= 2

\* configured against a shared hdf5
C23_WitnessShared ==
    /\ IsConfigure
    /\ call.hdf5_shared
    /\ ~call.raised
    /\ "dap" \in call.variants
    /\ spec_install["hdf5"] = "shared"

Concretized == cray.concretized # ""

\* C24: of the six combinations of declared values, the conflicts reject
\* craype-accel=mi60 with craype-host=rome and craype-accel=mi100 with
\* craype-host=naples, and admit exactly naples with mi60 or none and rome
\* with mi100 or none.
C24_AdmittedCombinations ==
    Concretized =>
        /\ cray.spec.host \in {"naples", "rome"}
        /\ cray.spec.accel \in {"mi60", "mi100", "none"}
        /\ (cray.concretized = "conflict") =
              (<<cray.spec.host, cray.spec.accel>> \in {<<"rome", "mi60">>, <<"naples", "mi100">>})
        /\ (cray.concretized = "accepted") =
              (<<cray.spec.host, cray.spec.accel>> \in
                  {<<"naples", "mi60">>, <<"naples", "none">>,
                   <<"rome", "mi100">>, <<"rome", "none">>})

\* craype-accel=mi100 was asked for on naples and rejected
C24_Witness ==
    /\ Concretized
    /\ cray.spec.host = "naples"
    /\ cray.spec.accel = "mi100"
    /\ cray.concretized = "conflict"

\* craype-accel=mi100 was asked for on rome and admitted
C24_WitnessAdmitted ==
    /\ Concretized
    /\ cray.spec.host = "rome"
    /\ cray.spec.accel = "mi100"
    /\ cray.concretized = "accepted"

\* C25: the default of every variant declared for host_lapack and mpi_impl
\* is a key of the provider map, hence one of the variant's values.
C25_DefaultIsAllowedValue ==
    \A i \in 1..Len(load.variants) :
        /\ load.variants[i].default.kind = "scalar"
        /\ load.variants[i].default.v \in Range(load.variants[i].values)

\* p has an entry in the query map or in the override list of the call
HasEntry(p) == p \in DOMAIN call.query_map \/ p \in DOMAIN call.override_libnames_map

\* the library files of p the search finds when p is resolved with its entry
FoundWithEntry(p) ==
    LET names == TopLibNames(p)
    IN Range(find_libraries([i \in 1..Len(names) |-> "lib" \o names[i]],
                            SpecLookup(p), call.shared))

\* C26: in a call of _find_libraries with a query map or an override list,
\* a package that has an entry is resolved with it wherever the collection
\* reaches it: the result holds the libraries the search finds under the
\* entry's names, for the named dependency and for one reached through
\* the dependencies of another.
C26_EntriesApplyTransitively ==
    IsFind =>
        \A dep_name \in Tpls : \A p \in Covered(dep_name) :
            (HasEntry(p) /\ ~LibsRaises(SpecLookup(p))) =>
                FoundWithEntry(p) \subseteq Range(call.out[dep_name].libs)

\* the generation of the script content did not return: exit(-1) for the
\* missing CRAY_ACCEL_TARGET, or an exception
GenerationFailed(b) == build[b].pc = "aborted" /\ ~HasRun(b, "write environment.sh")

\* C27: when the generation of the script content fails, the environment.sh
\* that was in the directory before is still there, unchanged.
C27_FailedGenerationKeepsPreviousScript ==
    \A b \in Builds :
        GenerationFailed(b) => tmp_spack_magic["environment.sh"] = PreviousEnvironmentSh

\* what each copy of _gather_core_tpl_libraries returns for the arguments
\* of the call
AtdmCopy ==
    AtdmTrilinos_gather_core_tpl_libraries(
        call.core_tpls, call.query_map, call.override_libnames_map,
        call.blacklist_static, call.shared, call.wrap_groups)

NetcdfCopy ==
    NetcdfC_gather_core_tpl_libraries(
        call.core_tpls, call.query_map, call.override_libnames_map,
        call.blacklist_static, call.shared, <<>>, call.wrap_groups)

\* no library collected for the tpl holds a denylisted substring
NoneDenylisted(tpl) ==
    \A i \in 1..Len(call.found[tpl].libs) :
        ~Denylisted(call.found[tpl].libs[i], call.blacklist_static)

\* C28: for the arguments of any call, the atdm-trilinos and the netcdf-c
\* copy of _gather_core_tpl_libraries return the same include directories
\* and the same library directories for every TPL, and the same library
\* list for every TPL none of whose collected libraries matches the
\* denylist; the call returned what its own copy computes.
C28_CopiesAgree ==
    IsGather =>
        /\ call.out = IF call.class = "AtdmTrilinos" THEN AtdmCopy ELSE NetcdfCopy
        /\ \A tpl \in Tpls :
              /\ AtdmCopy[tpl].inc_dirs = NetcdfCopy[tpl].inc_dirs
              /\ AtdmCopy[tpl].lib_dirs = NetcdfCopy[tpl].lib_dirs
              /\ NoneDenylisted(tpl) => AtdmCopy[tpl].libs = NetcdfCopy[tpl].libs

\* a static, grouped call with a denylist that none of the several
\* libraries collected from several directories matches
C28_Witness ==
    /\ IsGather
    /\ ~call.shared
    /\ call.wrap_groups
    /\ call.blacklist_static # <<>>
    /\ \E tpl \in Tpls :
          /\ NoneDenylisted(tpl)
          /\ Len(call.found[tpl].libs) >= 2
          /\ Len(call.found[tpl].lib_dirs) > Len(call.out[tpl].lib_dirs)
          /\ Len(call.out[tpl].lib_dirs) >= 2

\* a call for which the library lists of the two copies differ
C28_WitnessDenylisted ==
    /\ IsGather
    /\ \E tpl \in Tpls : ~NoneDenylisted(tpl) /\ AtdmCopy[tpl].libs # NetcdfCopy[tpl].libs
====
